---- MODULE Spec2Model ----
(***************************************************************************)
(* A model of bmatsuo/bt.exp.                                              *)
(*                                                                         *)
(* The bencoding codec: the Decoder (bencoding/decoder.go) and the Encoder *)
(* (bencoding encoder.go), driven by a caller that holds a byte buffer and *)
(* a destination and calls Unmarshal, Decoder.Decode and Marshal.          *)
(*                                                                         *)
(* The metainfo Writer (metainfo writer.go): goroutines that call Open,    *)
(* Write, Close and Metainfo on one Writer, each call a run of steps that  *)
(* starts with taking the Writer's mutex.                                  *)
(*                                                                         *)
(* Bytes are one-character strings and byte slices are sequences of them.  *)
(* Go values carry their dynamic type: a record with a tag k, and where    *)
(* needed the type t and the payload v.  A run-time panic is the outcome   *)
(* PANIC of the call; after it the caller makes no further call.           *)
(***************************************************************************)
EXTENDS Integers, Sequences, FiniteSets, TLC

VARIABLES
    buf,    \* the bytes the caller holds: the input, or Marshal's output
    pos,    \* Decoder.pos of the Decoder the caller keeps over buf
    dtyp,   \* the static type of the caller's destination variable
    dst,    \* the value of the caller's destination variable
    err,    \* the error the last call returned
    log,    \* one entry per call made: what was called and what came back
    budget, \* the number of calls the caller has yet to make
    tw,     \* the fields of the Writer t, its files among them
    pw,     \* the fields of the pieceWriter t.w
    gor,    \* the goroutines: where each is in the call it makes
    wlog    \* one entry per call on the Writer that has returned

vars == <<buf, pos, dtyp, dst, err, log, budget, tw, pw, gor, wlog>>

\* The caller of the codec has no Writer.
NoWriter == tw = << >> /\ pw = << >> /\ gor = << >> /\ wlog = << >>

----------------------------------------------------------------------------
(* Bounds of the model. *)

\* Width of the model's "64-bit" integers: int64 is -2^(IntBits-1) .. 2^(IntBits-1)-1.
IntBits == 7
\* Calls one caller makes.
MaxCalls == 3
\* Bytes that may follow a value in an input buffer.
MaxTrail == 1
\* Length of the raw buffers fed to the integer grammar.
MaxRaw == 4
\* Values in a stream read by one Decoder.
MaxValues == 2
\* Length of the buffers of any bytes read by one Decoder.
MaxCursor == 3
\* Piece lengths of a Writer: 1..MaxPlen.
MaxPlen == 2
\* Bytes given to one Write.
MaxWrite == 3
\* Calls made on one Writer.
MaxOps == 3
\* Goroutines that share one Writer.
MaxGoroutines == 2

----------------------------------------------------------------------------
(* Bytes. *)

\* The bytes of the model in ascending byte order.
ASCII == << " ", "-", "0", "1", "2", "3", "4", "5", "6", "7", "8", "9", ":",
            "A", "B", "C", "a", "b", "c", "d", "e", "f", "g", "h", "i", "j",
            "k", "l", "m", "n", "o", "p", "q", "r", "s", "t", "u", "v", "w",
            "x", "y", "z" >>

Digs == << "0", "1", "2", "3", "4", "5", "6", "7", "8", "9" >>

Ord(c) == CHOOSE n \in 1..Len(ASCII) : ASCII[n] = c


\* func(c rune) bool { return c < '0' || c > '9' }, negated
IsDigit(c) == \E n \in 1..10 : Digs[n] = c

DigitVal(c) == (CHOOSE n \in 1..10 : Digs[n] = c) - 1

\* a < b on strings: byte-lexicographic
RECURSIVE StrLess(_, _)
StrLess(a, b) ==
    IF b = << >> THEN FALSE
    ELSE IF a = << >> THEN TRUE
    ELSE IF a[1] # b[1] THEN Ord(a[1]) < Ord(b[1])
    ELSE StrLess(Tail(a), Tail(b))

MaxInt64 == 2^(IntBits - 1) - 1
MinInt64 == -(2^(IntBits - 1))

RECURSIVE DecVal(_)
DecVal(s) ==
    IF s = << >> THEN 0
    ELSE DecVal(SubSeq(s, 1, Len(s) - 1)) * 10 + DigitVal(s[Len(s)])

\* strconv.ParseInt(s, 10, 64) on a non-empty run of digits: a range error
\* when the value exceeds the largest int64.
ParseInt(s) ==
    IF DecVal(s) > MaxInt64
    THEN [err |-> "value out of range", v |-> MaxInt64]
    ELSE [err |-> "nil", v |-> DecVal(s)]

\* strconv.Atoi on a non-empty run of digits (int is 64 bits wide).
Atoi(s) ==
    IF DecVal(s) > MaxInt64
    THEN [err |-> "value out of range", v |-> MaxInt64]
    ELSE [err |-> "nil", v |-> DecVal(s)]

RECURSIVE FormatUint(_)
FormatUint(n) ==
    IF n < 10 THEN << Digs[n + 1] >>
    ELSE FormatUint(n \div 10) \o << Digs[(n % 10) + 1] >>

\* fmt.Sprintf("%d", i)
FormatInt(i) == IF i < 0 THEN << "-" >> \o FormatUint(-i) ELSE FormatUint(i)

\* bytes.IndexFunc(s[p:], nondigit): the offset of the first byte that is no
\* digit, -1 when there is none.  p counts from 0.
IndexFunc(s, p) ==
    LET hits == { n \in (p + 1)..Len(s) : ~IsDigit(s[n]) }
    IN  IF hits = {} THEN -1
        ELSE (CHOOSE n \in hits : \A m \in hits : n <= m) - (p + 1)

----------------------------------------------------------------------------
(* Types (reflect.Type) and values. *)

TIface == [k |-> "Interface"]
TKind(kind) == [k |-> kind]
TString == TKind("String")
TInt64 == TKind("Int64")
TBool == TKind("Bool")
TSlice(e) == [k |-> "Slice", elem |-> e]
TBytes == TSlice(TKind("Uint8"))
TMap(e) == [k |-> "Map", elem |-> e]
TPtr(e) == [k |-> "Ptr", elem |-> e]
\* A struct type: its fields in declaration order, each with its Go name, the
\* two halves of its `bencoding:"tag,opts"` tag, its PkgPath and its type.
TStruct(fs) == [k |-> "Struct", fields |-> fs]
Fld(name, tag, opts, pkg, t) ==
    [Name |-> name, Tag |-> tag, Opts |-> opts, PkgPath |-> pkg, Type |-> t]

SignedKinds == { "Int", "Int8", "Int16", "Int32", "Int64" }
UnsignedKinds == { "Uint", "Uint8", "Uint16", "Uint32", "Uint64" }
FloatKinds == { "Float32", "Float64" }

Nil == [k |-> "nil"]                                \* the nil interface value
IntV(kind, n) == [k |-> "int", t |-> TKind(kind), n |-> n]
UintV(kind, n) == [k |-> "uint", t |-> TKind(kind), n |-> n]
FloatV(kind) == [k |-> "float", t |-> TKind(kind)]
BoolV(b) == [k |-> "bool", b |-> b]
StringV(s) == [k |-> "string", s |-> s]
BytesV(s) == [k |-> "bytes", s |-> s]
ListV(e, s) == [k |-> "list", t |-> e, v |-> s]         \* a slice of e
DictV(e, m) == [k |-> "dict", t |-> e, m |-> m]         \* a map[string]e
StructV(t, fv) == [k |-> "struct", t |-> t, v |-> fv]
NilPtr(e) == [k |-> "nilptr", t |-> e]
PtrV(e, x) == [k |-> "ptr", t |-> e, x |-> x]
FuncV == [k |-> "func"]
ChanV == [k |-> "chan"]
\* A func type with a MarshalBencoding method that returns (p, e).
MarshV(p, e) == [k |-> "marsh", v |-> p, e |-> e]
\* A value of a named type whose underlying value is u (a list, a map, a
\* pointer, a record) and whose MarshalBencoding method returns (p, e).
MarshAs(u, p, e) == [k |-> "marsh", v |-> p, e |-> e, u |-> u]

\* The zero value of a type: what reflect.New(t) points to.
RECURSIVE Zero(_)
Zero(t) ==
    CASE t.k = "Interface" -> Nil
      [] t.k \in SignedKinds -> IntV(t.k, 0)
      [] t.k \in UnsignedKinds -> UintV(t.k, 0)
      [] t.k \in FloatKinds -> FloatV(t.k)
      [] t.k = "Bool" -> BoolV(FALSE)
      [] t.k = "String" -> StringV(<< >>)
      [] t.k = "Slice" -> IF t = TBytes THEN BytesV(<< >>) ELSE ListV(t.elem, << >>)
      [] t.k = "Map" -> DictV(t.elem, << >>)
      [] t.k = "Ptr" -> NilPtr(t.elem)
      [] t.k = "Struct" -> StructV(t, [n \in 1..Len(t.fields) |-> Zero(t.fields[n].Type)])
      [] t.k = "Func" -> FuncV
      [] t.k = "Chan" -> ChanV

\* reflect.TypeOf(v) for a value that is not the nil interface
RECURSIVE TypeOf(_)
TypeOf(v) ==
    CASE v.k \in { "int", "uint", "float", "struct" } -> v.t
      [] v.k = "bool" -> TBool
      [] v.k = "string" -> TString
      [] v.k = "bytes" -> TBytes
      [] v.k = "list" -> TSlice(v.t)
      [] v.k = "dict" -> TMap(v.t)
      [] v.k \in { "nilptr", "ptr" } -> TPtr(v.t)
      [] v.k \in { "func", "marsh" } -> TKind("Func")
      [] v.k = "chan" -> TKind("Chan")
      [] v.k = "nil" -> TIface

RECURSIVE derefType(_)
derefType(t) == IF t.k = "Ptr" THEN derefType(t.elem) ELSE t

isEmptyInterface(t) == t.k = "Interface"

\* derefVal(val, true) followed by Set: every nil pointer on the way to the
\* destination is allocated, and x is stored at the end of the chain.
RECURSIVE Store(_, _)
Store(t, x) == IF t.k = "Ptr" THEN PtrV(t.elem, Store(t.elem, x)) ELSE x

\* What derefVal(val, true) reaches: the value at the end of the pointer
\* chain, a fresh zero value where a pointer on the way is nil.
RECURSIVE Load(_, _)
Load(t, cur) ==
    IF t.k = "Ptr"
    THEN IF cur.k = "nilptr" THEN Zero(derefType(t)) ELSE Load(t.elem, cur.x)
    ELSE cur

----------------------------------------------------------------------------
(* The field descriptor table. *)

field(i, name, omitempty) == [i |-> i, name |-> name, omitempty |-> omitempty]

\* The loop of structFields: the exported fields, in declaration order.
RECURSIVE fieldsFrom(_, _)
fieldsFrom(t, n) ==
    IF n > Len(t.fields) THEN << >>
    ELSE LET ftyp == t.fields[n]
             fname == IF ftyp.Tag # << >> THEN ftyp.Tag ELSE ftyp.Name
         IN  IF ftyp.PkgPath # ""
             THEN fieldsFrom(t, n + 1)
             ELSE << field(n, fname, ftyp.Opts = "omitempty") >> \o fieldsFrom(t, n + 1)

\* sort.Sort(fs) with Less(i, j) = fs[i].name < fs[j].name.  A table this
\* short is sorted by insertion, which leaves fields of one serialized name
\* in declaration order.
RECURSIVE sortInsert(_, _)
sortInsert(f, fs) ==
    IF fs = << >> THEN << f >>
    ELSE IF ~StrLess(fs[1].name, f.name) THEN << f >> \o fs
    ELSE << fs[1] >> \o sortInsert(f, Tail(fs))

RECURSIVE sortFields(_)
sortFields(fs) ==
    IF fs = << >> THEN << >>
    ELSE sortInsert(fs[1], sortFields(Tail(fs)))

structFields(t) == sortFields(fieldsFrom(derefType(t), 1))

----------------------------------------------------------------------------
(* The Decoder. *)

EOF == "the token stream is consumed"
PANIC == "panic"

\* What a decoding function leaves behind: the error it returns, Decoder.pos,
\* and the value of the destination it was given.
Res(e, p, x) == [err |-> e, pos |-> p, val |-> x]

okInt == { "Complex128", "Complex64", "Float64", "Float32",
           "Int64", "Int32", "Int16", "Int8",
           "Uint64", "Uint32", "Uint16", "Uint8", "Bool" }

\* val.Set(reflect.ValueOf(x)) for an int64 x: reflect panics unless int64
\* is assignable to the destination's type.
setInt64(t, typ, x, p, cur) ==
    IF typ.k \in { "Int64", "Interface" }
    THEN Res("nil", p, Store(t, IntV("Int64", x)))
    ELSE Res(PANIC, p, cur)

nextInteger(s, p0, t, cur) ==
    IF p0 >= Len(s) THEN Res(EOF, p0, cur)
    ELSE IF s[p0 + 1] # "i" THEN Res("not an integer", p0, cur)
    ELSE
    LET p1 == p0 + 1
        typ == derefType(t)
    IN
    IF ~(typ.k \in okInt \/ isEmptyInterface(typ))
    THEN Res("cannot decode integer", p1, cur)
    ELSE IF p1 >= Len(s) THEN Res("unterminated integer", p1, cur)
    ELSE
    LET neg == s[p1 + 1] = "-"
        start == IF neg THEN p1 + 1 ELSE p1
        i == IndexFunc(s, start)
    IN
    IF i < 0 THEN Res("unterminated integer", start, cur)
    ELSE
    LET p2 == start + i IN
    IF s[p2 + 1] # "e" THEN Res("unexpected byte", p2, cur)
    ELSE
    LET intstr == SubSeq(s, start + 1, p2)
        p3 == p2 + 1
    IN
    IF Len(intstr) = 0 THEN Res("unexpected integer terminator", p3, cur)
    ELSE IF intstr[1] = "0" /\ Len(intstr) = 1 /\ neg
    THEN Res("invalid integer -0", p3, cur)
    ELSE IF intstr[1] = "0" /\ Len(intstr) > 1 THEN Res("leading zero", p3, cur)
    ELSE
    LET r == ParseInt(intstr) IN
    IF r.err # "nil" THEN Res(r.err, p3, cur)
    ELSE
    LET x == IF neg THEN -r.v ELSE r.v IN
    IF typ.k = "Bool" THEN Res("nil", p3, Store(t, BoolV(x # 0)))
    ELSE setInt64(t, typ, x, p3, cur)

\* nextString moving the cursor over the announced bytes before it finds
\* that the buffer holds fewer.
nextString_ahead(s, p0, t, cur) ==
    IF p0 >= Len(s) THEN Res(EOF, p0, cur)
    ELSE IF ~IsDigit(s[p0 + 1]) THEN Res("not a string", p0, cur)
    ELSE
    LET typ == derefType(t)
        byteslice == typ.k = "Slice" /\ typ.elem.k = "Uint8"
    IN
    IF ~(typ.k = "String" \/ byteslice \/ isEmptyInterface(typ))
    THEN Res("cannot decode string", p0, cur)
    ELSE
    LET i == IndexFunc(s, p0) IN
    IF i < 0 THEN Res("unterminated string length specifier", p0, cur)
    ELSE
    LET p1 == p0 + i IN
    IF s[p1 + 1] # ":" THEN Res("unexpected byte", p1, cur)
    ELSE
    LET r == Atoi(SubSeq(s, p0 + 1, p1)) IN
    IF r.err # "nil" THEN Res(r.err, p1, cur)
    ELSE
    LET slen == r.v
        p2 == p1 + 1
    IN
    IF slen > Len(s) - p2 THEN Res("unexpected end of string", p2 + slen, cur)
    ELSE
    LET res == SubSeq(s, p2 + 1, p2 + slen) IN
    IF byteslice THEN Res("nil", p2 + slen, Store(t, BytesV(res)))
    ELSE Res("nil", p2 + slen, Store(t, StringV(res)))

\* nextString taking any byte after the length digits for the colon.
nextString_anysep(s, p0, t, cur) ==
    IF p0 >= Len(s) THEN Res(EOF, p0, cur)
    ELSE IF ~IsDigit(s[p0 + 1]) THEN Res("not a string", p0, cur)
    ELSE
    LET typ == derefType(t)
        byteslice == typ.k = "Slice" /\ typ.elem.k = "Uint8"
    IN
    IF ~(typ.k = "String" \/ byteslice \/ isEmptyInterface(typ))
    THEN Res("cannot decode string", p0, cur)
    ELSE
    LET i == IndexFunc(s, p0) IN
    IF i < 0 THEN Res("unterminated string length specifier", p0, cur)
    ELSE
    LET p1 == p0 + i IN
    LET r == Atoi(SubSeq(s, p0 + 1, p1)) IN
    IF r.err # "nil" THEN Res(r.err, p1, cur)
    ELSE
    LET slen == r.v
        p2 == p1 + 1
    IN
    IF slen > Len(s) - p2 THEN Res("unexpected end of string", p2, cur)
    ELSE
    LET res == SubSeq(s, p2 + 1, p2 + slen) IN
    IF byteslice THEN Res("nil", p2 + slen, Store(t, BytesV(res)))
    ELSE Res("nil", p2 + slen, Store(t, StringV(res)))

nextString(s, p0, t, cur) ==
    IF p0 >= Len(s) THEN Res(EOF, p0, cur)
    ELSE IF ~IsDigit(s[p0 + 1]) THEN Res("not a string", p0, cur)
    ELSE
    LET typ == derefType(t)
        byteslice == typ.k = "Slice" /\ typ.elem.k = "Uint8"
    IN
    IF ~(typ.k = "String" \/ byteslice \/ isEmptyInterface(typ))
    THEN Res("cannot decode string", p0, cur)
    ELSE
    LET i == IndexFunc(s, p0) IN
    IF i < 0 THEN Res("unterminated string length specifier", p0, cur)
    ELSE
    LET p1 == p0 + i IN
    IF s[p1 + 1] # ":" THEN Res("unexpected byte", p1, cur)
    ELSE
    LET r == Atoi(SubSeq(s, p0 + 1, p1)) IN
    IF r.err # "nil" THEN Res(r.err, p1, cur)
    ELSE
    LET slen == r.v
        p2 == p1 + 1
    IN
    IF slen > Len(s) - p2 THEN Res("unexpected end of string", p2, cur)
    ELSE
    LET res == SubSeq(s, p2 + 1, p2 + slen) IN
    IF byteslice THEN Res("nil", p2 + slen, Store(t, BytesV(res)))
    ELSE Res("nil", p2 + slen, Store(t, StringV(res)))

\* for j := i; j < len(fs); j++ of nextDictStruct: the index of the matched
\* descriptor, 0 when the scan ends without a match.  Indices count from 1.
RECURSIVE scanFields(_, _, _, _)
scanFields(fs, i, j, namestr) ==
    IF j > Len(fs) THEN 0
    ELSE IF namestr = fs[j].name THEN j
    ELSE IF ~fs[i].omitempty THEN 0
    ELSE scanFields(fs, i, j + 1, namestr)

RECURSIVE nextObject(_, _, _, _)
RECURSIVE listLoop(_, _, _, _)
RECURSIVE dictLoop(_, _, _, _)
RECURSIVE structLoop(_, _, _, _, _, _, _)

\* listAppend putting the element in front of the ones decoded before it.
listAppend_front(s, elemT, sval, elem) ==
    IF elem.err # "nil" THEN Res(elem.err, elem.pos, sval)
    ELSE listLoop(s, elem.pos, elemT, << elem.val >> \o sval)

\* The rest of one round of nextList's loop, elem being what
\* dec.nextObject(elem) left behind.
listAppend(s, elemT, sval, elem) ==
    IF elem.err # "nil" THEN Res(elem.err, elem.pos, sval)
    ELSE listLoop(s, elem.pos, elemT, Append(sval, elem.val))

\* The for loop of nextList; sval holds the elements appended so far.
listLoop(s, p, elemT, sval) ==
    IF p >= Len(s) THEN Res("unterminated list", p, sval)
    ELSE IF s[p + 1] = "e" THEN Res("nil", p + 1, sval)
    ELSE listAppend(s, elemT, sval, nextObject(s, p, elemT, Zero(elemT)))

\* The deferred val.Set(sval) of nextList, which runs on every return of
\* the loop.
listSet(t, typ, elemT, r) ==
    Res(r.err, r.pos,
        Store(t, IF typ = TBytes THEN BytesV(r.val) ELSE ListV(elemT, r.val)))

nextList(s, p0, t, cur) ==
    IF p0 >= Len(s) THEN Res(EOF, p0, cur)
    ELSE
    LET typ == derefType(t)
        emptyiface == isEmptyInterface(typ)
    IN
    IF ~emptyiface /\ typ.k # "Slice" THEN Res("cannot decode list", p0, cur)
    ELSE IF s[p0 + 1] # "l" THEN Res("not a list", p0, cur)
    ELSE IF emptyiface
    THEN listSet(t, typ, TIface, listLoop(s, p0 + 1, TIface, << >>))
    ELSE listSet(t, typ, typ.elem,
                 listLoop(s, p0 + 1, typ.elem,
                          IF typ = TBytes THEN Load(t, cur).s ELSE Load(t, cur).v))

\* What the loop of nextDict returns: m is mval, derref whether val was
\* set to it.
DictRes(e, p, m, derref) == [err |-> e, pos |-> p, m |-> m, derref |-> derref]

\* SetMapIndex keeping the value a key already has.
SetMapIndex_first(m, key, elem) ==
    [x \in (DOMAIN m) \cup { key } |-> IF x \in DOMAIN m THEN m[x] ELSE elem]

\* mval.SetMapIndex(key, elem)
SetMapIndex(m, key, elem) ==
    [x \in (DOMAIN m) \cup { key } |-> IF x = key THEN elem ELSE m[x]]

\* The rest of one round of nextDict's loop after the value was decoded.
dictPut(s, m, derref, key, elem) ==
    IF elem.err # "nil" THEN DictRes(elem.err, elem.pos, m, derref)
    ELSE dictLoop(s, elem.pos, SetMapIndex(m, key.val.s, elem.val), TRUE)

\* The rest of one round of nextDict's loop after the key was decoded.
dictValue(s, m, derref, key) ==
    IF key.err # "nil" THEN DictRes(key.err, key.pos, m, derref)
    ELSE dictPut(s, m, derref, key, nextObject(s, key.pos, TIface, Zero(TIface)))

\* The loop of nextDict taking the end of the buffer for the closing "e".
dictLoop_noend(s, p, m, derref) ==
    IF p >= Len(s) THEN DictRes("nil", p, m, derref)
    ELSE IF s[p + 1] = "e" THEN DictRes("nil", p + 1, m, derref)
    ELSE dictValue(s, m, derref, nextString(s, p, TString, Zero(TString)))

\* The for loop of nextDict.
dictLoop(s, p, m, derref) ==
    IF p >= Len(s) THEN DictRes("unterminated dictionary", p, m, derref)
    ELSE IF s[p + 1] = "e" THEN DictRes("nil", p + 1, m, derref)
    ELSE dictValue(s, m, derref, nextString(s, p, TString, Zero(TString)))

\* What the loop of nextDictStruct returns: fv are the destination's field
\* values, derref whether the destination was reached.
StructRes(e, p, fv, derref) == [err |-> e, pos |-> p, fv |-> fv, derref |-> derref]

\* structSet refusing a key that matched no descriptor.
structSet_refuse(s, typ, fs, i, fv, derref, j, fval) ==
    IF fval.err # "nil" THEN StructRes(fval.err, fval.pos, fv, derref)
    ELSE IF j > 0
    THEN structLoop(s, fval.pos, typ, fs, j + 1, [fv EXCEPT ![fs[j].i] = fval.val], TRUE)
    ELSE StructRes("unknown key", fval.pos, fv, derref)

\* The rest of one round of nextDictStruct's loop after the value was
\* decoded; j is the matched descriptor, 0 when the key matched none.
structSet(s, typ, fs, i, fv, derref, j, fval) ==
    IF fval.err # "nil" THEN StructRes(fval.err, fval.pos, fv, derref)
    ELSE IF j > 0
    THEN structLoop(s, fval.pos, typ, fs, j + 1, [fv EXCEPT ![fs[j].i] = fval.val], TRUE)
    ELSE structLoop(s, fval.pos, typ, fs, i, fv, derref)

\* The type of the value decoded for a key: the matched field's, or
\* interface{} when the key matched no descriptor.
fvalType(typ, fs, j) == IF j > 0 THEN typ.fields[fs[j].i].Type ELSE TIface

structValue(s, p, typ, fs, i, fv, derref, j) ==
    structSet(s, typ, fs, i, fv, derref, j,
              nextObject(s, p, fvalType(typ, fs, j), Zero(fvalType(typ, fs, j))))

\* The rest of one round of nextDictStruct's loop after the key was decoded.
structKey(s, typ, fs, i, fv, derref, name) ==
    IF name.err # "nil" THEN StructRes(name.err, name.pos, fv, derref)
    ELSE structValue(s, name.pos, typ, fs, i, fv, derref,
                     scanFields(fs, i, i, name.val.s))

\* The for loop of nextDictStruct; i is where the scan starts (from 1).
structLoop(s, p, typ, fs, i, fv, derref) ==
    IF p >= Len(s) THEN StructRes("unterminated dictionary", p, fv, derref)
    ELSE IF s[p + 1] = "e" THEN StructRes("nil", p + 1, fv, derref)
    ELSE structKey(s, typ, fs, i, fv, derref, nextString(s, p, TString, Zero(TString)))

\* val.Field(...).Set on the destination reached by derefVal(val, true), if
\* any key was bound.
structStore(t, typ, cur, r) ==
    IF r.derref THEN Res(r.err, r.pos, Store(t, StructV(typ, r.fv)))
    ELSE Res(r.err, r.pos, cur)

nextDictStruct(s, p0, t, cur) ==
    IF s[p0 + 1] # "d" THEN Res("not a dict", p0, cur)
    ELSE structStore(t, derefType(t), cur,
                     structLoop(s, p0 + 1, derefType(t), structFields(derefType(t)),
                                1, Load(t, cur).v, FALSE))

\* val.Set(mval) on the destination reached by derefVal(val, true), once a
\* first pair was decoded.
dictStore(t, cur, r) ==
    IF r.derref THEN Res(r.err, r.pos, Store(t, DictV(TIface, r.m)))
    ELSE Res(r.err, r.pos, cur)

nextDict(s, p0, t, cur) ==
    IF p0 >= Len(s) THEN Res(EOF, p0, cur)
    ELSE
    LET typ == derefType(t) IN
    IF typ.k = "Map" /\ ~isEmptyInterface(derefType(typ.elem))
    THEN Res("2 cannot decode dictionary", p0, cur)
    ELSE IF typ.k = "Struct" THEN nextDictStruct(s, p0, t, cur)
    ELSE IF ~(typ.k = "Map" \/ isEmptyInterface(typ))
    THEN Res("3 cannot decode dictionary", p0, cur)
    ELSE IF s[p0 + 1] # "d" THEN Res("not a dict", p0, cur)
    ELSE dictStore(t, cur, dictLoop(s, p0 + 1, << >>, FALSE))

nextObject(s, p, t, cur) ==
    IF p >= Len(s) THEN Res(EOF, p, cur)
    ELSE
    LET c == s[p + 1] IN
    CASE c = "i" -> nextInteger(s, p, t, cur)
      [] c = "l" -> nextList(s, p, t, cur)
      [] c = "d" -> nextDict(s, p, t, cur)
      [] OTHER -> IF IsDigit(c) THEN nextString(s, p, t, cur)
                  ELSE Res("couldn't parse", p, cur)

\* if dec.pos < len(dec.stream) { return fmt.Errorf("trailing bytes") }
trailing(p, r) ==
    IF r.err # "nil" THEN r
    ELSE IF r.pos < Len(p) THEN Res("trailing bytes", r.pos, r.val)
    ELSE r

\* Unmarshal(dst, p) with dst a pointer to a variable of type t holding cur.
Unmarshal(t, cur, p) == trailing(p, nextObject(p, 0, t, cur))

\* Decode reading from the start of the stream at every call.
Decode_restart(s, p, t, cur, arg) ==
    IF arg = "value" THEN Res("destination is not a pointer", p, cur)
    ELSE IF arg = "nil" THEN Res("nil destination", p, cur)
    ELSE nextObject(s, 0, t, cur)

\* Decoder.Decode(dst): arg says what the caller passes as dst.
Decode(s, p, t, cur, arg) ==
    IF arg = "value" THEN Res("destination is not a pointer", p, cur)
    ELSE IF arg = "nil" THEN Res("nil destination", p, cur)
    ELSE nextObject(s, p, t, cur)

----------------------------------------------------------------------------
(* The Encoder. *)

\* What an encoding function returns: the bytes and the error.
Enc(e, p) == [err |-> e, p |-> p]

encodeString(s) ==
    IF Len(s) <= 0 THEN << "0", ":" >>
    ELSE FormatInt(Len(s)) \o << ":" >> \o s

encodeBytes(p) ==
    IF Len(p) <= 0 THEN << "0", ":" >>
    ELSE FormatInt(Len(p)) \o << ":" >> \o p

encodeInteger(i) == << "i" >> \o FormatInt(i) \o << "e" >>

\* An unsigned u kept as it is.
toInt64_same(u) == u

\* int64(u) for an unsigned u: the value wraps
toInt64(u) == IF u > MaxInt64 THEN u - 2^IntBits ELSE u

\* The keys of a map as a range over it may give them: unsorted, here with
\* the greatest first.
RECURSIVE sortStrings_none(_)
sortStrings_none(S) ==
    IF S = {} THEN << >>
    ELSE LET most == CHOOSE x \in S : \A y \in S : y = x \/ StrLess(y, x)
         IN  << most >> \o sortStrings_none(S \ { most })

\* sort.Strings on the keys of a map
RECURSIVE sortStrings(_)
sortStrings(S) ==
    IF S = {} THEN << >>
    ELSE LET least == CHOOSE x \in S : \A y \in S : y = x \/ StrLess(x, y)
         IN  << least >> \o sortStrings(S \ { least })

RECURSIVE encodeObject(_, _)
RECURSIVE elemLoop(_, _, _)
RECURSIVE keyLoop(_, _, _, _)
RECURSIVE fieldLoop(_, _, _, _)

\* for ... { p, err := encodeObject(obj, false) ... } of encodeList and encodeSlice
elemAppend(list, n, ret, r) ==
    IF r.err # "nil" THEN Enc(r.err, << >>)
    ELSE elemLoop(list, n + 1, ret \o r.p)

elemLoop(list, n, ret) ==
    IF n > Len(list) THEN Enc("nil", ret \o << "e" >>)
    ELSE elemAppend(list, n, ret, encodeObject(list[n], FALSE))

encodeSlice(val) ==
    IF Len(val) = 0 THEN Enc("nil", << "l", "e" >>)
    ELSE elemLoop(val, 1, << "l" >>)

encodeList(list) ==
    IF Len(list) <= 0 THEN Enc("nil", << "l", "e" >>)
    ELSE elemLoop(list, 1, << "l" >>)

\* for _, k := range keys of encodeDict
keyAppend(m, keys, n, ret, r) ==
    IF r.err # "nil" THEN Enc(r.err, << >>)
    ELSE keyLoop(m, keys, n + 1, ret \o encodeString(keys[n]) \o r.p)

keyLoop(m, keys, n, ret) ==
    IF n > Len(keys) THEN Enc("nil", ret \o << "e" >>)
    ELSE keyAppend(m, keys, n, ret, encodeObject(m[keys[n]], FALSE))

encodeDict(m) ==
    IF Cardinality(DOMAIN m) <= 0 THEN Enc("nil", << "d", "e" >>)
    ELSE keyLoop(m, sortStrings(DOMAIN m), 1, << "d" >>)

\* The test of encodeStruct on the encoded bytes of an omitempty field.
omitted(p) ==
    \/ p[1] = "0" /\ p[2] = ":"
    \/ p[1] = "l" /\ p[2] = "e"
    \/ p[1] = "d" /\ p[2] = "e"

\* for _, f := range fs of encodeStruct
\* The body of that loop after p, err := encodeObject(...), r being (p, err).
fieldAppend(v, fs, n, benc, f, r) ==
    IF r.err # "nil" THEN Enc(r.err, << >>)
    ELSE IF f.omitempty /\ Len(r.p) < 2 THEN Enc(PANIC, << >>)
    ELSE IF f.omitempty /\ omitted(r.p) THEN fieldLoop(v, fs, n + 1, benc)
    ELSE fieldLoop(v, fs, n + 1, benc \o encodeString(f.name) \o r.p)

fieldLoop(v, fs, n, benc) ==
    IF n > Len(fs) THEN Enc("nil", benc \o << "e" >>)
    ELSE fieldAppend(v, fs, n, benc, fs[n], encodeObject(v.v[fs[n].i], fs[n].omitempty))

encodeStruct(v) == fieldLoop(v, structFields(v.t), 1, << "d" >>)

intKind == { "Int", "Int64", "Int32", "Int16", "Int8" }
uintKind == { "Uint", "Uint64", "Uint32", "Uint16", "Uint8" }

\* A method looked for only on the types that are nothing else.
isMarshaller_plain(in) == in.k = "marsh" /\ "u" \notin DOMAIN in

\* m, ok := in.(Marshaller)
isMarshaller(in) == in.k = "marsh"

encodeObject(in, omitable) ==
    IF isMarshaller(in) THEN Enc(in.e, in.v)
    ELSE IF in.k = "list" /\ in.t = TIface THEN encodeList(in.v)
    ELSE IF in.k = "dict" /\ in.t = TIface THEN encodeDict(in.m)
    ELSE IF in.k = "bytes" THEN Enc("nil", encodeBytes(in.s))
    \* reflect.TypeOf(nil) is nil, and t.Kind() on it a nil dereference
    ELSE IF in.k = "nil" THEN Enc(PANIC, << >>)
    ELSE
    CASE in.k = "nilptr" ->
            IF ~omitable THEN Enc("nil value", << >>)
            \* reflect.Indirect of a nil pointer is the zero Value, and
            \* Interface() on it panics
            ELSE Enc(PANIC, << >>)
      [] in.k = "ptr" -> encodeObject(in.x, omitable)
      [] in.k = "struct" -> encodeStruct(in)
      [] in.k = "string" -> Enc("nil", encodeString(in.s))
      [] in.k = "list" -> encodeSlice(in.v)
      [] in.k = "int" /\ in.t.k \in intKind -> Enc("nil", encodeInteger(in.n))
      [] in.k = "uint" /\ in.t.k \in uintKind -> Enc("nil", encodeInteger(toInt64(in.n)))
      [] in.k = "bool" -> IF in.b THEN Enc("nil", << "i", "1", "e" >>)
                          ELSE Enc("nil", << "i", "0", "e" >>)
      [] OTHER -> Enc("invalid type", << >>)

Marshal(in) == encodeObject(in, FALSE)

----------------------------------------------------------------------------
(* The caller. *)

Entry(op, e, x, p, n) == [op |-> op, err |-> e, val |-> x, p |-> p, pos |-> n]

\* dst = zero value; err = Unmarshal(&dst, buf)
CallUnmarshal ==
    /\ budget > 0
    /\ err # PANIC
    /\ budget' = budget - 1
    /\ LET r == Unmarshal(dtyp, Zero(dtyp), buf) IN
         /\ dst' = r.val
         /\ err' = r.err
         /\ log' = Append(log, Entry("Unmarshal", r.err, r.val, buf, r.pos))
    /\ UNCHANGED << buf, pos, dtyp, tw, pw, gor, wlog >>

\* dec.Decode(dst) on the Decoder the caller keeps over buf
CallDecode ==
    /\ budget > 0
    /\ err # PANIC
    /\ budget' = budget - 1
    /\ \E arg \in { "pointer", "nil", "value" } :
         LET r == Decode(buf, pos, dtyp, dst, arg) IN
         /\ dst' = r.val
         /\ pos' = r.pos
         /\ err' = r.err
         /\ log' = Append(log, Entry(IF arg = "pointer" THEN "Decode" ELSE "DecodeBadDst",
                                     r.err, r.val, buf, r.pos))
    /\ UNCHANGED << buf, dtyp, tw, pw, gor, wlog >>

\* buf, err = Marshal(dst), and a new Decoder over buf
CallMarshal ==
    /\ budget > 0
    /\ err # PANIC
    /\ budget' = budget - 1
    /\ LET r == Marshal(dst) IN
         /\ buf' = r.p
         /\ pos' = 0
         /\ err' = r.err
         /\ log' = Append(log, Entry("Marshal", r.err, dst, r.p, 0))
    /\ UNCHANGED << dtyp, dst, tw, pw, gor, wlog >>

Next == CallUnmarshal \/ CallDecode \/ CallMarshal

----------------------------------------------------------------------------
(* Inputs: generic values on the wire. *)

Trails == UNION { [1..n -> { "e" }] : n \in 0..MaxTrail }

WireAtoms ==
    { encodeInteger(n) : n \in { 0, -1 } } \cup { encodeString(x) : x \in { << >>, << "a" >> } }

WireKeys == { encodeString(<< "a" >>), encodeString(<< "b" >>) }

WireLists(S) ==
    { << "l", "e" >> } \cup { << "l" >> \o x \o << "e" >> : x \in S }
    \cup { << "l" >> \o x \o y \o << "e" >> : x \in S, y \in S }

WireDicts(S) ==
    { << "d", "e" >> } \cup { << "d" >> \o k1 \o x \o << "e" >> : k1 \in WireKeys, x \in S }
    \cup { << "d" >> \o k1 \o x \o k2 \o y \o << "e" >> :
              k1 \in WireKeys, k2 \in WireKeys, x \in S, y \in S }

Wire1 == WireAtoms \cup WireLists(WireAtoms) \cup WireDicts(WireAtoms)

\* the containers of at most one element
WireSmall ==
    { << "l", "e" >>, << "d", "e" >> }
    \cup { << "l" >> \o x \o << "e" >> : x \in WireAtoms }
    \cup { << "d" >> \o k1 \o x \o << "e" >> : k1 \in WireKeys, x \in WireAtoms }

Wire2 ==
    Wire1 \cup { << "l" >> \o x \o << "e" >> : x \in WireSmall }
          \cup { << "d" >> \o encodeString(<< "a" >>) \o x \o << "e" >> : x \in WireSmall }

WireBuffers == { << >> } \cup { w \o t : w \in Wire2, t \in Trails }

InitWire ==
    /\ NoWriter
    /\ buf \in WireBuffers
    /\ pos = 0
    /\ dtyp = TIface
    /\ dst = Zero(TIface)
    /\ err = "nil"
    /\ log = << >>
    /\ budget = MaxCalls

\* A caller that decodes generic values off the wire and encodes them again.
SpecWire == InitWire /\ [][Next]_vars

----------------------------------------------------------------------------
(* Inputs: integer tokens. *)

RawBytes == { "i", "-", "0", "1", "e", "x" }

\* every buffer of at most MaxRaw bytes over RawBytes
RawBuffers == UNION { [1..n -> RawBytes] : n \in 0..MaxRaw }

\* "i<decimal>e" for the decimals around the ends of the int64 range
EdgeTokens ==
    { << "i" >> \o FormatInt(n) \o << "e" >> :
          n \in ((MinInt64 - 2)..(MinInt64 + 1)) \cup ((MaxInt64 - 1)..(MaxInt64 + 2)) }

NumericKinds == SignedKinds \cup UnsignedKinds \cup FloatKinds

InitInt ==
    /\ NoWriter
    /\ pos = 0
    /\ err = "nil"
    /\ log = << >>
    /\ \/ \* a buffer decoded into an int64
          /\ buf \in RawBuffers \cup EdgeTokens
          /\ dtyp = TInt64
          /\ dst = Zero(dtyp)
          /\ budget = 1
       \/ \* an integer token decoded into a numeric destination
          /\ buf \in { encodeInteger(n) : n \in { 0, 5 } }
          /\ dtyp \in { TKind(kind) : kind \in NumericKinds \cup { "Bool" } }
          /\ dst = Zero(dtyp)
          /\ budget = 1
       \/ \* an int64 encoded and decoded again
          /\ buf = << >>
          /\ dtyp = TInt64
          /\ dst \in { IntV("Int64", n) : n \in MinInt64..MaxInt64 }
          /\ budget = 2

\* A caller that decodes integer tokens, and encodes and decodes integers.
SpecInt == InitInt /\ [][Next]_vars

----------------------------------------------------------------------------
(* Inputs: Go values given to Marshal. *)

\* struct { A string `bencoding:"a,omitempty"`; B int64 `bencoding:"b"`;
\*          C bool `bencoding:"c"` } of TestMarshal_success
TTestRec ==
    TStruct(<< Fld(<< "A" >>, << "a" >>, "omitempty", "", TString),
               Fld(<< "B" >>, << "b" >>, "", "", TInt64),
               Fld(<< "C" >>, << "c" >>, "", "", TBool) >>)

\* struct{ A int64 } of TestMarshal_success
TRecA == TStruct(<< Fld(<< "A" >>, << >>, "", "", TInt64) >>)

\* struct { A int32 `bencoding:"a"`; b int64 }
TRecInt32 ==
    TStruct(<< Fld(<< "A" >>, << "a" >>, "", "", TKind("Int32")),
               Fld(<< "b" >>, << >>, "", "bencoding", TInt64) >>)

\* struct { P *int64 `bencoding:"p"` }
TRecPtr == TStruct(<< Fld(<< "P" >>, << "p" >>, "", "", TPtr(TInt64)) >>)

\* struct { P *int64 `bencoding:"p,omitempty"` }
TRecPtrOmit == TStruct(<< Fld(<< "P" >>, << "p" >>, "omitempty", "", TPtr(TInt64)) >>)

\* struct { G interface{} `bencoding:"g"`; F interface{} `bencoding:"f,omitempty"` }
TRecOmit ==
    TStruct(<< Fld(<< "G" >>, << "g" >>, "", "", TIface),
               Fld(<< "F" >>, << "f" >>, "omitempty", "", TIface) >>)

\* metainfo.FileInfo
TFileInfo ==
    TStruct(<< Fld(<< "P", "a", "t", "h" >>,
                   << "p", "a", "t", "h" >>, "", "", TSlice(TString)),
               Fld(<< "L", "e", "n", "g", "t", "h" >>,
                   << "l", "e", "n", "g", "t", "h" >>, "", "", TInt64),
               Fld(<< "M", "D", "5", "S", "u", "m" >>,
                   << "m", "d", "5", "s", "u", "m" >>, "omitempty", "", TString) >>)

\* metainfo.Info
TInfo ==
    TStruct(<< Fld(<< "N", "a", "m", "e" >>,
                   << "n", "a", "m", "e" >>, "", "", TString),
               Fld(<< "F", "i", "l", "e", "s" >>,
                   << "f", "i", "l", "e", "s" >>, "omitempty", "", TSlice(TFileInfo)),
               Fld(<< "L", "e", "n", "g", "t", "h" >>,
                   << "l", "e", "n", "g", "t", "h" >>, "omitempty", "", TInt64),
               Fld(<< "M", "D", "5", "S", "u", "m" >>,
                   << "m", "d", "5", "s", "u", "m" >>, "omitempty", "", TString),
               Fld(<< "P", "i", "e", "c", "e", "s" >>,
                   << "p", "i", "e", "c", "e", "s" >>, "", "", TBytes),
               Fld(<< "P", "i", "e", "c", "e", "L", "e", "n", "g", "t", "h" >>,
                   << "p", "i", "e", "c", "e", " ", "l", "e", "n", "g", "t", "h" >>, "", "", TInt64),
               Fld(<< "P", "r", "i", "v", "a", "t", "e" >>,
                   << "p", "r", "i", "v", "a", "t", "e" >>, "omitempty", "", TBool) >>)

\* metainfo.Metainfo
TMetainfo ==
    TStruct(<< Fld(<< "I", "n", "f", "o" >>,
                   << "i", "n", "f", "o" >>, "", "", TInfo),
               Fld(<< "A", "n", "n", "o", "u", "n", "c", "e" >>,
                   << "a", "n", "n", "o", "u", "n", "c", "e" >>, "", "", TString),
               Fld(<< "C", "r", "e", "a", "t", "i", "o", "n", "D", "a", "t", "e" >>,
                   << "c", "r", "e", "a", "t", "i", "o", "n", " ", "d", "a", "t", "e" >>, "omitempty", "", TInt64),
               Fld(<< "E", "n", "c", "o", "d", "i", "n", "g" >>,
                   << "e", "n", "c", "o", "d", "i", "n", "g" >>, "omitempty", "", TString),
               Fld(<< "C", "r", "e", "a", "t", "e", "d", "B", "y" >>,
                   << "c", "r", "e", "a", "t", "e", "d", " ", "b", "y" >>, "omitempty", "", TString),
               Fld(<< "C", "o", "m", "m", "e", "n", "t" >>,
                   << "c", "o", "m", "m", "e", "n", "t" >>, "omitempty", "", TString) >>)

MetainfoValues ==
    { StructV(TMetainfo,
              << StructV(TInfo, << StringV(<< "n" >>), files, IntV("Int64", length),
                                   StringV(<< >>), BytesV(<< "h", "h" >>),
                                   IntV("Int64", 2), BoolV(private) >>),
                 StringV(<< "u" >>), IntV("Int64", 0), StringV(<< >>),
                 StringV(<< >>), StringV(comment) >>) :
          files \in { ListV(TFileInfo, << >>),
                      ListV(TFileInfo,
                            << StructV(TFileInfo, << ListV(TString, << StringV(<< "f" >>) >>),
                                                     IntV("Int64", 3), StringV(<< >>) >>) >>) },
          length \in { 0, 4 },
          private \in BOOLEAN,
          comment \in { << >>, << "c" >> } }

\* MarshalBencoding methods and what they return.
\* Values of different kinds are kept in sequences: the values of a set have
\* to be of one shape.
Marshallers ==
    << MarshV(<< >>, "nil"), MarshV(<< "e" >>, "nil"), MarshV(<< "0", ":" >>, "nil"),
       MarshV(<< "0", ":", "x" >>, "nil"), MarshV(<< "l", "e" >>, "nil"),
       MarshV(<< "l", "e", "x" >>, "nil"), MarshV(<< "d", "e" >>, "nil"),
       MarshV(<< "d", "e", "x" >>, "nil"), MarshV(<< "i", "1", "e" >>, "nil"),
       MarshV(<< >>, "boom") >>

Unsupported == << FuncV, ChanV, FloatV("Float64"), DictV(TInt64, << >>), Nil >>

EncScalars ==
    << IntV("Int64", 0), IntV("Int", -13), IntV("Int32", 0), UintV("Uint32", 10),
       BoolV(TRUE), BoolV(FALSE), StringV(<< >>), StringV(<< "h", "e", "l", "l", "o" >>),
       BytesV(<< >>), BytesV(<< "h", "e", "l", "l", "o" >>) >>

EncEmpties == << ListV(TIface, << >>), DictV(TIface, << >>), ListV(TString, << >>) >>

EncPointers == << NilPtr(TInt64), PtrV(TInt64, IntV("Int64", 3)) >>

EncLeaves ==
    EncScalars \o EncEmpties \o EncPointers \o Unsupported \o Marshallers

\* values of TestMarshal_success
EncTests ==
    << DictV(TIface, (<< "h", "e", "l", "l", "o" >> :> StringV(<< "w", "o", "r", "l", "d" >>)) @@ (<< "c", "h", "a", "r", "s", "e", "t" >> :> StringV(<< "u", "t", "f", "-", "8" >>))),
       ListV(TIface, << IntV("Int", 1), StringV(<< "2" >>),
                        StructV(TRecA, << IntV("Int64", 3) >>) >>),
       ListV(TString, << StringV(<< "a" >>), StringV(<< >>) >>),
       StructV(TRecInt32, << IntV("Int32", 3), IntV("Int64", 1) >>) >>

\* what the field G of a TRecOmit holds
EncUnmarked ==
    << IntV("Int64", 0), StringV(<< >>), ListV(TIface, << >>), DictV(TIface, << >>),
       FuncV, Nil >>

TestRecs ==
    { StructV(TTestRec, << StringV(a), IntV("Int64", b), BoolV(c) >>) :
          a \in { << >>, << "x" >> }, b \in { 0, 3 }, c \in BOOLEAN }

InitEnc ==
    /\ NoWriter
    /\ \/ \E n \in 1..Len(EncLeaves) :
              \/ dst = EncLeaves[n]
              \/ dst = ListV(TIface, << EncLeaves[n] >>)
              \/ dst = DictV(TIface, << "a" >> :> EncLeaves[n])
              \/ \E g \in 1..Len(EncUnmarked) :
                     dst = StructV(TRecOmit, << EncUnmarked[g], EncLeaves[n] >>)
       \/ \E n \in 1..Len(EncEmpties) :
              dst = DictV(TIface, << "a" >> :> DictV(TIface, << "a" >> :> EncEmpties[n]))
       \/ \E n \in 1..Len(EncPointers) :
              \/ dst = StructV(TRecPtr, << EncPointers[n] >>)
              \/ dst = StructV(TRecPtrOmit, << EncPointers[n] >>)
       \/ \E n \in 1..Len(EncTests) : dst = EncTests[n]
       \/ dst \in TestRecs \cup MetainfoValues
    /\ dtyp = TypeOf(dst)
    /\ buf = << >>
    /\ pos = 0
    /\ err = "nil"
    /\ log = << >>
    /\ budget = MaxCalls

\* A caller that encodes a value, decodes the bytes into a destination of
\* the value's type and encodes that again.
SpecEnc == InitEnc /\ [][Next]_vars

----------------------------------------------------------------------------
(* Inputs: dicts decoded into records. *)

\* struct { A int64 `bencoding:"a[,omitempty]"`; B ... `b`; C ... `c` }
TRec3(oa, ob, oc) ==
    TStruct(<< Fld(<< "A" >>, << "a" >>, IF oa THEN "omitempty" ELSE "", "", TInt64),
               Fld(<< "B" >>, << "b" >>, IF ob THEN "omitempty" ELSE "", "", TInt64),
               Fld(<< "C" >>, << "c" >>, IF oc THEN "omitempty" ELSE "", "", TInt64) >>)

BindKeys == { "a", "b", "c", "x" }

\* the value sent under a key
BindValue(key) == CASE key = "a" -> 1 [] key = "b" -> 2 [] key = "c" -> 3 [] OTHER -> 4

\* the keys of a dict in their order of arrival: no key twice
KeySeqs ==
    { ks \in UNION { [1..n -> BindKeys] : n \in 0..3 } :
          \A m, n \in 1..Len(ks) : m # n => ks[m] # ks[n] }

RECURSIVE bindPairs(_)
bindPairs(ks) ==
    IF ks = << >> THEN << >>
    ELSE encodeString(<< ks[1] >>) \o encodeInteger(BindValue(ks[1])) \o bindPairs(Tail(ks))

BindBuffer(ks) == << "d" >> \o bindPairs(ks) \o << "e" >>

\* well-formed values sent under the key x, which no field is named
XGood ==
    { << "l", "e" >>, << "d", "e" >>, << "1", ":", "a" >>, << "l", "i", "1", "e", "e" >>,
      << "d", "1", ":", "a", "i", "1", "e", "e" >> }

\* values with a grammar error that no following byte repairs
XBad ==
    { << "i", "e" >>, << "i", "-", "0", "e" >>, << "i", "0", "0", "e" >>,
      << "l", "i", "-", "0", "e", "e" >> }

\* The pairs of ks, the key x with the bytes xv as its value.
RECURSIVE bindPairsX(_, _)
bindPairsX(ks, xv) ==
    IF ks = << >> THEN << >>
    ELSE encodeString(<< ks[1] >>)
         \o (IF ks[1] = "x" THEN xv ELSE encodeInteger(BindValue(ks[1])))
         \o bindPairsX(Tail(ks), xv)

BindBufferX(ks, xv) == << "d" >> \o bindPairsX(ks, xv) \o << "e" >>

\* the key sequences that hold the key x
XKeySeqs == { ks \in KeySeqs : \E n \in 1..Len(ks) : ks[n] = "x" }

InitBind ==
    /\ NoWriter
    /\ \/ /\ buf \in { BindBuffer(ks) : ks \in KeySeqs }
          /\ dtyp \in { TRec3(oa, ob, oc) : oa \in BOOLEAN, ob \in BOOLEAN, oc \in BOOLEAN }
          /\ budget = 2
       \/ /\ buf \in { BindBufferX(ks, xv) : ks \in XKeySeqs, xv \in XGood \cup XBad }
          /\ dtyp \in { TRec3(o, o, o) : o \in BOOLEAN }
          /\ budget = 1
    /\ dst = Zero(dtyp)
    /\ pos = 0
    /\ err = "nil"
    /\ log = << >>

\* A caller that decodes dicts into records.
SpecBind == InitBind /\ [][Next]_vars

----------------------------------------------------------------------------
(* Inputs: dicts decoded into maps. *)

DictKeys == { << "a" >>, << "b" >> }

\* the values of the pairs, as bytes
DictValues == { << "i", "0", "e" >>, << "i", "1", "e" >>, << "1", ":", "a" >> }

\* the pairs of a dict in their order of arrival: a key may come twice and
\* the keys in any order
PairSeqs ==
    UNION { [1..n -> [key : DictKeys, val : DictValues]] : n \in 0..3 }

RECURSIVE dictPairs(_)
dictPairs(ps) ==
    IF ps = << >> THEN << >>
    ELSE encodeString(ps[1].key) \o ps[1].val \o dictPairs(Tail(ps))

DictBuffer(ps) == << "d" >> \o dictPairs(ps) \o << "e" >>

\* DictBuffer(ps) without its closing "e"
OpenDict(ps) == << "d" >> \o dictPairs(ps)

\* dicts with a key that is no byte string, and with a key without a value
BadKeyDicts ==
    { << "d", "i", "1", "e", "i", "1", "e", "e" >>, << "d", "l", "e", "i", "0", "e", "e" >>,
      << "d", "d", "e", "i", "0", "e", "e" >> }

NoValueDicts ==
    { << "d", "1", ":", "a", "e" >>, << "d", "1", ":", "a" >>,
      << "d", "1", ":", "a", "i", "0", "e", "1", ":", "b", "e" >> }

InitDict ==
    /\ NoWriter
    /\ buf \in { DictBuffer(ps) : ps \in PairSeqs } \cup { OpenDict(ps) : ps \in PairSeqs }
               \cup BadKeyDicts \cup NoValueDicts
    /\ dtyp \in { TIface, TMap(TIface) }
    /\ dst = Zero(dtyp)
    /\ pos = 0
    /\ err = "nil"
    /\ log = << >>
    /\ budget = 1

\* A caller that decodes dicts into maps and generic values.
SpecDict == InitDict /\ [][Next]_vars

----------------------------------------------------------------------------
(* Inputs: lists decoded into slices. *)

\* the elements of the lists, as bytes
ElemValues == { << "i", "0", "e" >>, << "i", "1", "e" >>, << "1", ":", "a" >>, << "l", "e" >> }

\* the elements of a list in their order
ElemSeqs == UNION { [1..n -> ElemValues] : n \in 0..3 }

RECURSIVE listElems(_)
listElems(es) == IF es = << >> THEN << >> ELSE es[1] \o listElems(Tail(es))

ListBuffer(es) == << "l" >> \o listElems(es) \o << "e" >>

\* ListBuffer(es) without its closing "e"
OpenList(es) == << "l" >> \o listElems(es)

InitList ==
    /\ NoWriter
    /\ buf \in { ListBuffer(es) : es \in ElemSeqs } \cup { OpenList(es) : es \in ElemSeqs }
    /\ dtyp \in { TIface, TSlice(TIface), TSlice(TInt64), TSlice(TString) }
    /\ dst = Zero(dtyp)
    /\ pos = 0
    /\ err = "nil"
    /\ log = << >>
    /\ budget = 1

\* A caller that decodes lists into slices and generic values.
SpecList == InitList /\ [][Next]_vars

----------------------------------------------------------------------------
(* Inputs: byte strings. *)

StrBytes == { "0", "1", "2", ":", "a" }

\* every buffer of at most MaxRaw bytes over StrBytes
StrBuffers == UNION { [1..n -> StrBytes] : n \in 0..MaxRaw }

InitStr ==
    /\ NoWriter
    /\ buf \in StrBuffers
    /\ dtyp \in { TString, TBytes, TIface }
    /\ dst = Zero(dtyp)
    /\ pos = 0
    /\ err = "nil"
    /\ log = << >>
    /\ budget = 1

\* A caller that decodes byte strings.
SpecStr == InitStr /\ [][Next]_vars

----------------------------------------------------------------------------
(* Inputs: tokens decoded into destinations of every shape. *)

\* one or two tokens of each kind
ShapeTokens ==
    { << "i", "1", "e" >>, << "1", ":", "a" >>, << "0", ":" >>,
      << "l", "e" >>, << "l", "i", "1", "e", "e" >>,
      << "d", "e" >>, << "d", "1", ":", "a", "i", "1", "e", "e" >> }

\* the types of the destinations
ShapeTypes ==
    { TString, TBytes, TSlice(TInt64), TSlice(TIface), TSlice(TString), TMap(TIface),
      TRecA, TTestRec, TInt64, TKind("Int"), TKind("Int32"), TKind("Uint8"),
      TKind("Uint64"), TBool, TIface }

InitShape ==
    /\ NoWriter
    /\ buf \in ShapeTokens
    /\ \E t \in ShapeTypes : dtyp \in { t, TPtr(t) }
    /\ dst = Zero(dtyp)
    /\ pos = 0
    /\ err = "nil"
    /\ log = << >>
    /\ budget = 1

\* A caller that decodes one token into a destination of some shape.
SpecShape == InitShape /\ [][Next]_vars

----------------------------------------------------------------------------
(* Inputs: generic maps given to Marshal. *)

MapKeys == { << >>, << "a" >>, << "a", "b" >>, << "b" >>, << "B" >>, << "a", "-" >> }

\* the value held under a key: a string for a key of one byte, else the
\* key's length
MapValue(key) == IF Len(key) = 1 THEN StringV(key) ELSE IntV("Int", Len(key))

InitMap ==
    /\ NoWriter
    /\ \E K \in SUBSET MapKeys : dst = DictV(TIface, [key \in K |-> MapValue(key)])
    /\ dtyp = TMap(TIface)
    /\ buf = << >>
    /\ pos = 0
    /\ err = "nil"
    /\ log = << >>
    /\ budget = 2

\* A caller that encodes generic maps and decodes them again.
SpecMap == InitMap /\ [][Next]_vars

----------------------------------------------------------------------------
(* Inputs: records given to Marshal. *)

\* struct { B int64 `bencoding:"b"`; A int64 }
TRecMixed ==
    TStruct(<< Fld(<< "B" >>, << "b" >>, "", "", TInt64),
               Fld(<< "A" >>, << >>, "", "", TInt64) >>)

\* struct { Z int64 `bencoding:"a"`; A int64 `bencoding:"z"` }
TRecSwap ==
    TStruct(<< Fld(<< "Z" >>, << "a" >>, "", "", TInt64),
               Fld(<< "A" >>, << "z" >>, "", "", TInt64) >>)

\* struct { C string `bencoding:",omitempty"`; b int64; A int64 }
TRecHidden ==
    TStruct(<< Fld(<< "C" >>, << >>, "omitempty", "", TString),
               Fld(<< "b" >>, << >>, "", "bencoding", TInt64),
               Fld(<< "A" >>, << >>, "", "", TInt64) >>)

\* struct { A int64; B int64 `bencoding:"A"` }
TRecSame ==
    TStruct(<< Fld(<< "A" >>, << >>, "", "", TInt64),
               Fld(<< "B" >>, << "A" >>, "", "", TInt64) >>)

\* struct { X string `bencoding:"k,omitempty"`; Y int64 `bencoding:"k"` }
TRecSameOmit ==
    TStruct(<< Fld(<< "X" >>, << "k" >>, "omitempty", "", TString),
               Fld(<< "Y" >>, << "k" >>, "", "", TInt64) >>)

RecTypes == << TRecMixed, TRecSwap, TRecHidden, TRecSame, TRecSameOmit >>

\* what a field of type t holds
FieldValues(t) ==
    IF t = TString THEN { StringV(<< >>), StringV(<< "x" >>) }
    ELSE { IntV("Int64", 0), IntV("Int64", 1) }

RecValues(t) ==
    { StructV(t, fv) : fv \in { f \in [1..Len(t.fields) -> FieldValues(TString) \cup FieldValues(TInt64)] :
                                   \A i \in 1..Len(t.fields) : f[i] \in FieldValues(t.fields[i].Type) } }

InitRec ==
    /\ NoWriter
    /\ \E n \in 1..Len(RecTypes) : dtyp = RecTypes[n] /\ dst \in RecValues(RecTypes[n])
    /\ buf = << >>
    /\ pos = 0
    /\ err = "nil"
    /\ log = << >>
    /\ budget = 2

\* A caller that encodes records and decodes them again.
SpecRec == InitRec /\ [][Next]_vars

----------------------------------------------------------------------------
(* Inputs: values with a MarshalBencoding method given to Marshal. *)

\* what a value with the method is besides
Underlying ==
    << ListV(TIface, << IntV("Int64", 1) >>), DictV(TIface, << "a" >> :> IntV("Int64", 1)),
       PtrV(TInt64, IntV("Int64", 3)), NilPtr(TInt64), StructV(TRecA, << IntV("Int64", 3) >>) >>

\* The value of the method's results Marshallers[n]: of a func type for
\* u = 0, of a type over Underlying[u] otherwise.
Method(n, u) ==
    IF u = 0 THEN Marshallers[n]
    ELSE MarshAs(Underlying[u], Marshallers[n].v, Marshallers[n].e)

InitMarsh ==
    /\ NoWriter
    /\ \E n \in 1..Len(Marshallers), u \in 0..Len(Underlying) :
           \/ dst = Method(n, u)
           \/ dst = ListV(TIface, << IntV("Int64", 1), Method(n, u), StringV(<< "a" >>) >>)
           \/ dst = ListV(TIface, << Method(n, u), Method(1, u) >>)
           \/ dst = DictV(TIface, (<< "b" >> :> Method(n, u)) @@ (<< "a" >> :> IntV("Int64", 1)))
    /\ dtyp = TIface
    /\ buf = << >>
    /\ pos = 0
    /\ err = "nil"
    /\ log = << >>
    /\ budget = 2

\* A caller that encodes values with a MarshalBencoding method, alone and
\* in lists and maps.
SpecMarsh == InitMarsh /\ [][Next]_vars

----------------------------------------------------------------------------
(* Inputs: integers given to Marshal. *)

\* The signed values of every kind, and the unsigned ones up to the largest
\* uint64.  The widths are those of IntBits for every kind.
InitNum ==
    /\ NoWriter
    /\ \/ \E kind \in SignedKinds, n \in MinInt64..MaxInt64 :
              dst = IntV(kind, n) /\ dtyp = TKind(kind)
       \/ \E kind \in UnsignedKinds, n \in 0..(2^IntBits - 1) :
              dst = UintV(kind, n) /\ dtyp = TKind(kind)
    /\ buf = << >>
    /\ pos = 0
    /\ err = "nil"
    /\ log = << >>
    /\ budget = 1

\* A caller that encodes an integer.
SpecNum == InitNum /\ [][Next]_vars

----------------------------------------------------------------------------
(* Inputs: booleans given to Marshal, integer tokens decoded into a bool. *)

InitBool ==
    /\ NoWriter
    /\ \/ /\ buf \in { encodeInteger(n) : n \in MinInt64..MaxInt64 }
          /\ dst = BoolV(FALSE)
       \/ /\ buf = << >>
          /\ dst \in { BoolV(b) : b \in BOOLEAN }
    /\ dtyp = TBool
    /\ pos = 0
    /\ err = "nil"
    /\ log = << >>
    /\ budget = 2

\* A caller that encodes booleans and decodes integer tokens into a bool.
SpecBool == InitBool /\ [][Next]_vars

----------------------------------------------------------------------------
(* Inputs: streams of values read by one Decoder. *)

StreamValues ==
    { << "i", "1", "e" >>, << "1", ":", "a" >>, << "l", "i", "0", "e", "e" >>,
      << "d", "1", ":", "a", "i", "0", "e", "e" >> }

\* the streams of n values
RECURSIVE StreamsOf(_)
StreamsOf(n) ==
    IF n = 0 THEN { << >> }
    ELSE { v \o s : v \in StreamValues, s \in StreamsOf(n - 1) }

\* The Decoder of NewDecoderBytes over a stream, and a caller that makes
\* calls enough to read past its end.
InitStream ==
    /\ NoWriter
    /\ buf \in UNION { StreamsOf(n) : n \in 0..MaxValues }
    /\ pos = 0
    /\ dtyp = TIface
    /\ dst = Zero(TIface)
    /\ err = "nil"
    /\ log = << >>
    /\ budget = MaxValues + 1

\* A caller that reads a stream value by value.
SpecStream == InitStream /\ [][Next]_vars

----------------------------------------------------------------------------
(* Inputs: buffers of any bytes read by one Decoder. *)

CursorBytes == { "i", "-", "1", "e", ":", "l", "d" }

\* every buffer of at most MaxCursor bytes over CursorBytes
InitCursor ==
    /\ NoWriter
    /\ buf \in UNION { [1..n -> CursorBytes] : n \in 0..MaxCursor }
    /\ pos = 0
    /\ dtyp = TIface
    /\ dst = Zero(TIface)
    /\ err = "nil"
    /\ log = << >>
    /\ budget = 2

\* A caller that goes on reading a buffer after a call has failed.
SpecCursor == InitCursor /\ [][Next]_vars

\* Every caller of the model.
Init == InitWire \/ InitInt \/ InitEnc \/ InitBind \/ InitDict \/ InitList \/ InitStr \/ InitShape \/ InitMap \/ InitRec \/ InitMarsh \/ InitNum \/ InitBool \/ InitStream \/ InitCursor

Spec == Init /\ [][Next]_vars

----------------------------------------------------------------------------
(* The metainfo Writer.                                                    *)
(*                                                                         *)
(* A byte slice is its length, and a hash.Hash the number of bytes written *)
(* to it, -1 for a nil hash.Hash.  The sum of a hash is that number: the   *)
(* bytes of the stream are hashed in order, so the number tells which      *)
(* bytes a sum covers.  t.pieces is the sequence of the sums appended to   *)
(* it, one entry for the 20 bytes of each.  The mutexes of the pieceWriter *)
(* and of a fileInfoWriter are taken and released within one step, and     *)
(* have no state here.                                                     *)

errClosed == "closed"

\* newPieceWriter(plen)
newPieceWriter(plen) ==
    [pieces |-> << >>, plen |-> plen, offset |-> 0, sha |-> 0, closed |-> FALSE]

\* newFileInfoWriter(w, path)
newFileInfoWriter(path) == [path |-> path, length |-> 0, md5 |-> 0, closed |-> FALSE]

\* &Writer{plen: plen, w: newPieceWriter(plen)}.  mut is the goroutine that
\* holds t.mut, 0 for none; file is the place of t.file in t.files, 0 for
\* nil; made tells whether a constructor has returned t to its caller.
newWriter(plen, made) ==
    [made |-> made, mut |-> 0, closed |-> FALSE, files |-> << >>, file |-> 0,
     single |-> FALSE, plen |-> plen]

\* w.sha.Sum(nil), of a new hash when w.sha is nil
shaSum(w) == IF w.sha = -1 THEN 0 ELSE w.sha

\* What a method returns: the Writer and the pieceWriter as it leaves them,
\* the byte count and the error.
WRes(t, w, n, e) == [t |-> t, w |-> w, n |-> n, err |-> e]

\* return n + _n, err of pieceWriter.write
writeMore(n, r) == [w |-> r.w, n |-> n + r.n, err |-> r.err]

\* pieceWriter.write(p) for a p of n bytes
RECURSIVE write(_, _)
write(w, n) ==
    IF w.closed THEN [w |-> w, n |-> 0, err |-> errClosed]
    ELSE
    LET cut == w.plen - w.offset
        prefix == IF n > cut THEN cut ELSE n
        suffix == IF n > cut THEN n - cut ELSE 0
    IN
    IF suffix > 0
    THEN writeMore(n, write([w EXCEPT !.pieces = Append(@, shaSum(w) + prefix),
                                      !.sha = 0, !.offset = 0], suffix))
    ELSE [w |-> [w EXCEPT !.sha = shaSum(w) + prefix], n |-> n, err |-> "nil"]

\* pieceWriter.Close
pieceClose(w) ==
    IF w.closed THEN [w |-> w, err |-> errClosed]
    ELSE [w |-> [w EXCEPT !.pieces = Append(@, shaSum(w)), !.sha = -1], err |-> "nil"]

\* fileInfoWriter.Close on t.file
fileClose(t, w) ==
    [t |-> [t EXCEPT !.files[t.file].closed = TRUE], w |-> pieceClose(w).w]

\* t.file.Close() where t.file is not nil
closeOpen(t, w) == IF t.file # 0 THEN fileClose(t, w) ELSE [t |-> t, w |-> w]

\* The rest of fileInfoWriter.Write after n, err := h.w.Write(p), r being
\* what Write returned.  p[:n] panics when n exceeds the capacity of p:
\* roomy tells whether the capacity of p is n at least.
fileCount(t, len, roomy, r) ==
    IF r.n > len /\ ~roomy THEN WRes(t, r.w, 0, PANIC)
    ELSE WRes([t EXCEPT !.files[t.file].md5 = @ + r.n,
                        !.files[t.file].length = @ + r.n], r.w, r.n, r.err)

\* fileInfoWriter.Write(p) on t.file
fileWrite(t, w, len, roomy) == fileCount(t, len, roomy, write(w, len))

\* The rest of Writer.Open after t.file.Close(), c being the Writer and the
\* pieceWriter as that left them.
openFile(c, path) ==
    WRes([c.t EXCEPT !.files = Append(@, newFileInfoWriter(path)),
                     !.file = Len(c.t.files) + 1], c.w, 0, "nil")

\* Writer.Open(path) between t.mut.Lock() and its return
Open(t, w, path) ==
    IF t.closed THEN WRes(t, w, 0, errClosed)
    ELSE IF t.file # 0 /\ t.single
    THEN WRes(t, w, 0, "single-file writer cannot create new files")
    ELSE openFile(closeOpen(t, w), path)

\* Writer.Write(p) between t.mut.Lock() and its return
Write(t, w, len, roomy) ==
    IF t.closed THEN WRes(t, w, 0, errClosed)
    ELSE IF t.file = 0 THEN WRes(t, w, 0, "no open file")
    ELSE fileWrite(t, w, len, roomy)

\* The rest of Writer.Close after t.file.Close(): t.file = nil; t.w.Close()
closeWriter(c) == WRes([c.t EXCEPT !.file = 0], pieceClose(c.w).w, 0, "nil")

\* Writer.Close between t.mut.Lock() and its return
Close(t, w) ==
    IF t.closed THEN WRes(t, w, 0, errClosed)
    ELSE closeWriter(closeOpen(t, w))

\* The Info of a Metainfo, as far as the Writer fills it.
Info(name, length, md5, files, pieces) ==
    [Name |-> name, Length |-> length, MD5Sum |-> md5, Files |-> files, Pieces |-> pieces]

NoInfo == Info("", 0, 0, << >>, << >>)

\* A goroutine: where it is (pc) in the method op it called with a slice of
\* len bytes or with path, the function ret that called op for it, and the
\* state of the loop of metainfoMulti: i files read of n, into info.
Goroutine(pc, op, len, roomy, path, ret, i, n, files) ==
    [pc |-> pc, op |-> op, len |-> len, roomy |-> roomy, path |-> path, ret |-> ret,
     i |-> i, n |-> n, files |-> files]

Idle == Goroutine("idle", "", 0, FALSE, "", "", 0, 0, << >>)

\* A goroutine has panicked, which ends the program.
Crashed == \E g \in DOMAIN gor : gor[g].pc = PANIC

\* What the log holds of a call that returned: the goroutine, the method,
\* its arguments and results, and the files and the piece table as the call
\* left them.
WEntry(g, op, len, path, n, e, t, w, info) ==
    [g |-> g, op |-> op, len |-> len, path |-> path, n |-> n, err |-> e,
     files |-> t.files, file |-> t.file, single |-> t.single, pieces |-> w.pieces,
     info |-> info]

Names == { "a", "b" }

\* t, err := NewWriter(plen), by the goroutine 1
NewWriter(g) ==
    /\ g = 1
    /\ tw.made = "no"
    /\ \E plen \in 1..MaxPlen :
         /\ tw' = newWriter(plen, "yes")
         /\ pw' = newPieceWriter(plen)
         /\ wlog' = Append(wlog, WEntry(g, "NewWriter", 0, "", 0, "nil",
                                        newWriter(plen, "yes"), newPieceWriter(plen), NoInfo))
    /\ UNCHANGED << buf, pos, dtyp, dst, err, log, budget, gor >>

\* NewWriterSingle(plen, name) up to its call of t.Open(name): NewWriter,
\* t.mut.Lock() and defer t.mut.Unlock()
NewWriterSingle(g) ==
    /\ g = 1
    /\ tw.made = "no"
    /\ \E plen \in 1..MaxPlen, name \in Names :
         /\ tw' = [newWriter(plen, "building") EXCEPT !.mut = g]
         /\ pw' = newPieceWriter(plen)
         /\ gor' = [gor EXCEPT ![g] = Goroutine("lock", "Open", 0, FALSE, name,
                                                "NewWriterSingle", 0, 0, << >>)]
    /\ UNCHANGED << buf, pos, dtyp, dst, err, log, budget, wlog >>

\* The calls a goroutine may make on the Writer it was given.  Metainfo
\* starts with err := t.Close().
Calls ==
    { Goroutine("lock", "Open", 0, FALSE, path, "", 0, 0, << >>) : path \in Names }
    \cup { Goroutine("lock", "Write", len, roomy, "", "", 0, 0, << >>) :
               len \in 0..MaxWrite, roomy \in BOOLEAN }
    \cup { Goroutine("lock", "Close", 0, FALSE, "", ret, 0, 0, << >>) :
               ret \in { "", "Metainfo" } }

\* A goroutine calls a method of the Writer: t.nonnil()
Begin(g) ==
    /\ g \in DOMAIN gor
    /\ tw.made = "yes"
    /\ ~Crashed
    /\ gor[g].pc = "idle"
    /\ budget > 0
    /\ budget' = budget - 1
    /\ \E call \in Calls : gor' = [gor EXCEPT ![g] = call]
    /\ UNCHANGED << buf, pos, dtyp, dst, err, log, tw, pw, wlog >>

\* t.mut.Lock(); defer t.mut.Unlock()
Lock(g) ==
    /\ g \in DOMAIN gor
    /\ ~Crashed
    /\ gor[g].pc = "lock"
    /\ tw.mut = 0
    /\ tw' = [tw EXCEPT !.mut = g]
    /\ gor' = [gor EXCEPT ![g].pc = "locked"]
    /\ UNCHANGED << buf, pos, dtyp, dst, err, log, budget, pw, wlog >>

\* What the method of the goroutine c does between Lock and its return.
Critical(c) ==
    CASE c.op = "Open" -> Open(tw, pw, c.path)
      [] c.op = "Write" -> Write(tw, pw, c.len, c.roomy)
      [] c.op = "Close" -> Close(tw, pw)

\* The method runs to its return, where the deferred t.mut.Unlock() runs.
\* A method called by a goroutine returns to it.  The Close called by
\* Metainfo returns to Metainfo, which goes on when err is nil or errClosed.
\* The Open called by NewWriterSingle returns to NewWriterSingle, which sets
\* t.single and whose deferred Unlock of the mutex that Open has unlocked is
\* a fatal error.
Section(g) ==
    /\ g \in DOMAIN gor
    /\ ~Crashed
    /\ gor[g].pc = "locked"
    /\ LET c == gor[g]
           r == Critical(c)
           t1 == [r.t EXCEPT !.mut = 0]
       IN
       /\ pw' = r.w
       /\ IF r.err = PANIC
          THEN /\ tw' = t1
               /\ gor' = [gor EXCEPT ![g].pc = PANIC]
               /\ wlog' = Append(wlog, WEntry(g, c.op, c.len, c.path, 0, PANIC, t1, r.w, NoInfo))
          ELSE IF c.ret = "NewWriterSingle"
          THEN /\ tw' = [t1 EXCEPT !.single = TRUE]
               /\ gor' = [gor EXCEPT ![g].pc = PANIC]
               /\ wlog' = Append(wlog, WEntry(g, c.ret, 0, c.path, 0, PANIC,
                                              [t1 EXCEPT !.single = TRUE], r.w, NoInfo))
          ELSE IF c.ret = "Metainfo" /\ r.err \in { "nil", errClosed }
          THEN /\ tw' = t1
               /\ gor' = [gor EXCEPT ![g].pc = "mode"]
               /\ wlog' = wlog
          ELSE /\ tw' = t1
               /\ gor' = [gor EXCEPT ![g] = Idle]
               /\ wlog' = Append(wlog, WEntry(g, IF c.ret = "" THEN c.op ELSE c.ret,
                                              c.len, c.path, r.n, r.err, t1, r.w, NoInfo))
    /\ UNCHANGED << buf, pos, dtyp, dst, err, log, budget >>

\* if t.single of Metainfo, read without t.mut.  metainfoSingle reads
\* t.files[0], which panics when there is none, and t.w.Pieces();
\* metainfoMulti starts its loop over t.files.
MetainfoMode(g) ==
    /\ g \in DOMAIN gor
    /\ ~Crashed
    /\ gor[g].pc = "mode"
    /\ IF tw.single /\ tw.files = << >>
       THEN /\ gor' = [gor EXCEPT ![g].pc = PANIC]
            /\ wlog' = Append(wlog, WEntry(g, "Metainfo", 0, "", 0, PANIC, tw, pw, NoInfo))
       ELSE IF tw.single
       THEN /\ gor' = [gor EXCEPT ![g] = Idle]
            /\ wlog' = Append(wlog, WEntry(g, "Metainfo", 0, "", 0, "nil", tw, pw,
                                           Info(tw.files[1].path, tw.files[1].length,
                                                tw.files[1].md5, << >>, pw.pieces)))
       ELSE /\ gor' = [gor EXCEPT ![g].pc = "files", ![g].i = 0, ![g].n = Len(tw.files),
                                  ![g].files = << >>]
            /\ wlog' = wlog
    /\ UNCHANGED << buf, pos, dtyp, dst, err, log, budget, tw, pw >>

\* One round of for _, file := range t.files of metainfoMulti, read without
\* t.mut; after the last one info.Pieces = t.w.Pieces() and the return.
MetainfoFile(g) ==
    /\ g \in DOMAIN gor
    /\ ~Crashed
    /\ gor[g].pc = "files"
    /\ IF gor[g].i < gor[g].n
       THEN /\ gor' = [gor EXCEPT ![g].i = @ + 1,
                                  ![g].files = Append(@, [Path |-> tw.files[gor[g].i + 1].path,
                                                          Length |-> tw.files[gor[g].i + 1].length])]
            /\ wlog' = wlog
       ELSE /\ gor' = [gor EXCEPT ![g] = Idle]
            /\ wlog' = Append(wlog, WEntry(g, "Metainfo", 0, "", 0, "nil", tw, pw,
                                           Info("dir", 0, 0, gor[g].files, pw.pieces)))
    /\ UNCHANGED << buf, pos, dtyp, dst, err, log, budget, tw, pw >>

NextW ==
    \E g \in 1..MaxGoroutines :
        \/ NewWriter(g)
        \/ NewWriterSingle(g)
        \/ Begin(g)
        \/ Lock(g)
        \/ Section(g)
        \/ MetainfoMode(g)
        \/ MetainfoFile(g)

\* The goroutines 1..n before any Writer is made.
InitWriters(n) ==
    /\ buf = << >>
    /\ pos = 0
    /\ dtyp = TIface
    /\ dst = Nil
    /\ err = "nil"
    /\ log = << >>
    /\ tw = newWriter(0, "no")
    /\ pw = newPieceWriter(0)
    /\ gor = [g \in 1..n |-> Idle]
    /\ wlog = << >>

InitWriter == InitWriters(1) /\ budget = MaxOps

\* One goroutine that makes a Writer and calls its methods.
SpecWriter == InitWriter /\ [][NextW]_vars

InitRace == InitWriters(MaxGoroutines) /\ budget = MaxOps

\* Two goroutines that call the methods of one Writer.
SpecRace == InitRace /\ [][NextW]_vars

----------------------------------------------------------------------------
(* The claims. *)

\* The caller has made the calls ops, in this order, as its first calls.
Called(ops) ==
    /\ Len(log) >= Len(ops)
    /\ \A n \in 1..Len(ops) : log[n].op = ops[n]

\* C1: a value v decoded from a buffer into the generic destination is
\* marshalled without error, and unmarshalling those bytes into the generic
\* destination gives a value equal to v.
C1_RoundTrip ==
    /\ (Called(<< "Unmarshal", "Marshal" >>) /\ log[1].err = "nil")
           => log[2].err = "nil"
    /\ (Called(<< "Unmarshal", "Marshal", "Unmarshal" >>) /\ log[1].err = "nil")
           => (log[3].err = "nil" /\ log[3].val = log[1].val)

\* v holds no value with a MarshalBencoding method of its own.
RECURSIVE Plain(_)
Plain(v) ==
    CASE v.k = "marsh" -> FALSE
      [] v.k \in { "list", "struct" } -> \A n \in 1..Len(v.v) : Plain(v.v[n])
      [] v.k = "dict" -> \A key \in DOMAIN v.m : Plain(v.m[key])
      [] v.k = "ptr" -> Plain(v.x)
      [] OTHER -> TRUE

\* C2: when Marshal encodes a value v without error, Unmarshal of the bytes
\* into a fresh destination of v's type succeeds, and marshalling that
\* destination gives the same bytes again.
C2_CanonicalIdempotence ==
    /\ (Called(<< "Marshal", "Unmarshal" >>) /\ Plain(log[1].val) /\ log[1].err = "nil")
           => log[2].err = "nil"
    /\ (Called(<< "Marshal", "Unmarshal", "Marshal" >>) /\ Plain(log[1].val)
            /\ log[1].err = "nil")
           => (log[3].err = "nil" /\ log[3].p = log[1].p)

\* The keys ks arrive in ascending order.
Ascending(ks) == \A n \in 1..(Len(ks) - 1) : StrLess(<< ks[n] >>, << ks[n + 1] >>)

\* The key key is one of ks.
Present(ks, key) == \E n \in 1..Len(ks) : << ks[n] >> = key

\* C3: a dict with ascending keys decoded into a record, a field without
\* omitempty being absent from the dict: the call succeeds, every field
\* whose key is present holds the value sent under the key, and every
\* field whose key is absent holds its zero value.
C3_AbsentField ==
    \A ks \in KeySeqs :
        (/\ Called(<< "Unmarshal" >>)
         /\ dtyp.k = "Struct"
         /\ log[1].p = BindBuffer(ks)
         /\ Ascending(ks)
         /\ \E i \in 1..Len(dtyp.fields) :
                dtyp.fields[i].Opts # "omitempty" /\ ~Present(ks, dtyp.fields[i].Tag))
        => /\ log[1].err = "nil"
           /\ \A i \in 1..Len(dtyp.fields) :
                  log[1].val.v[i] =
                      IF Present(ks, dtyp.fields[i].Tag)
                      THEN IntV("Int64", BindValue(dtyp.fields[i].Tag[1]))
                      ELSE IntV("Int64", 0)

\* C4: an integer token unmarshalled into a destination of any numeric kind
\* succeeds, and an integer destination then holds the token's value.
C4_NumericKinds ==
    \A x \in { 0, 5 } :
        (/\ Called(<< "Unmarshal" >>)
         /\ dtyp.k \in NumericKinds
         /\ log[1].p = encodeInteger(x))
        => /\ log[1].err = "nil"
           /\ log[1].val.k \in { "int", "uint" } => log[1].val.n = x

\* C5: Marshal returns the nil value error for a nil pointer at the top
\* level, in a list, in a map and in a record field without omitempty; a
\* record whose omitempty field holds a nil pointer is encoded without that
\* field.
C5_NilPointer ==
    Called(<< "Marshal" >>) =>
        LET in == log[1].val
            nilptr == NilPtr(TInt64)
        IN
        /\ (\/ in = nilptr
            \/ in = ListV(TIface, << nilptr >>)
            \/ in = DictV(TIface, << "a" >> :> nilptr)
            \/ in = StructV(TRecPtr, << nilptr >>))
               => log[1].err = "nil value"
        /\ in = StructV(TRecPtrOmit, << nilptr >>)
               => (log[1].err = "nil" /\ log[1].p = << "d", "e" >>)
        /\ in = StructV(TRecOmit, << IntV("Int64", 0), nilptr >>)
               => (log[1].err = "nil" /\ log[1].p = << "d", "1", ":", "g", "i", "0", "e", "e" >>)

\* the three encodings that count as empty
EmptyEncodings == { << "0", ":" >>, << "l", "e" >>, << "d", "e" >> }

\* C6: a record with the omitempty field f and the unmarked field g, both
\* of which Marshal encodes on their own: the record's encoding leaves f out
\* exactly when f's bytes are "0:", "le" or "de", and holds g always.
C6_OmitEmpty ==
    (/\ Called(<< "Marshal" >>)
     /\ log[1].val.k = "struct"
     /\ log[1].val.t = TRecOmit
     /\ Marshal(log[1].val.v[1]).err = "nil"
     /\ Marshal(log[1].val.v[2]).err = "nil")
    => LET g == Marshal(log[1].val.v[1]).p
           f == Marshal(log[1].val.v[2]).p
       IN
       /\ log[1].err = "nil"
       /\ log[1].p = << "d" >>
                     \o (IF f \in EmptyEncodings THEN << >> ELSE encodeString(<< "f" >>) \o f)
                     \o encodeString(<< "g" >>) \o g
                     \o << "e" >>

\* in matches none of the rules of encodeObject.
NoRule(in) ==
    \/ in.k \in { "func", "chan", "float", "nil" }
    \/ in.k = "dict" /\ in.t # TIface

\* C7: Marshal returns the invalid type error and no bytes for a value that
\* no rule of encodeObject matches, at the top level and as the only
\* element of a list, the only value of a map, or a field of a record whose
\* other field is encodable.
C7_Unsupported ==
    Called(<< "Marshal" >>) =>
        LET in == log[1].val IN
        (\/ NoRule(in)
         \/ in.k = "list" /\ in.t = TIface /\ Len(in.v) = 1 /\ NoRule(in.v[1])
         \/ in.k = "dict" /\ in.t = TIface /\ DOMAIN in.m = { << "a" >> }
                /\ NoRule(in.m[<< "a" >>])
         \/ in.k = "struct" /\ in.t = TRecOmit /\ in.v[1] = IntV("Int64", 0)
                /\ NoRule(in.v[2]))
        => (log[1].err = "invalid type" /\ log[1].p = << >>)

\* "i<decimal of n>e"
Token(n) == << "i" >> \o FormatInt(n) \o << "e" >>

\* C8: an int64 that Marshal encoded is unmarshalled into an int64 without
\* error and with the same value, and a token whose decimal is outside the
\* int64 range is refused with an error.
C8_Int64Range ==
    /\ (Called(<< "Marshal", "Unmarshal" >>) /\ dtyp = TInt64 /\ log[1].val.k = "int")
           => (log[2].err = "nil" /\ log[2].val = log[1].val)
    /\ \A n \in ((MinInt64 - 2)..(MinInt64 - 1)) \cup ((MaxInt64 + 1)..(MaxInt64 + 2)) :
           (Len(log) >= 1 /\ log[1].op \in { "Unmarshal", "Decode" } /\ log[1].p = Token(n))
               => log[1].err \notin { "nil", PANIC }

\* The first e bytes of s are an integer token: "i", at most one "-", a run
\* of digits that is "0" alone or does not start with "0", and "e".
IsToken(s, e) ==
    /\ e >= 3
    /\ e <= Len(s)
    /\ s[1] = "i"
    /\ s[e] = "e"
    /\ LET neg == s[2] = "-"
           ds == SubSeq(s, IF neg THEN 3 ELSE 2, e - 1)
       IN
       /\ ds # << >>
       /\ \A n \in 1..Len(ds) : IsDigit(ds[n])
       /\ ds[1] = "0" => (Len(ds) = 1 /\ ~neg)

\* The int64s that the integer token s starts with is the decimal of: one
\* at most.
TokenValues(s) ==
    { n \in MinInt64..MaxInt64 :
          \E e \in 1..Len(s) : IsToken(s, e) /\ SubSeq(s, 1, e) = Token(n) }

\* C9: Decode into an int64 succeeds exactly when the buffer starts with an
\* integer token whose decimal is an int64, and the destination then holds
\* that decimal.
C9_IntegerGrammar ==
    (Called(<< "Decode" >>) /\ dtyp = TInt64)
    => /\ log[1].err = "nil" <=> TokenValues(log[1].p) # { }
       /\ log[1].err = "nil" => log[1].val.n \in TokenValues(log[1].p)

\* C10: Unmarshal into an int64 returns no error when the buffer is one
\* integer token whose decimal is an int64, an error when such a token is
\* followed by more bytes, and the end of stream error when the buffer is
\* empty.
C10_TrailingBytes ==
    (Called(<< "Unmarshal" >>) /\ dtyp = TInt64)
    => LET p == log[1].p IN
       /\ p = << >> => log[1].err = EOF
       /\ \A n \in TokenValues(p) :
              IF p = Token(n) THEN log[1].err = "nil" ELSE log[1].err # "nil"

\* ks without the key x
RECURSIVE Known(_)
Known(ks) ==
    IF ks = << >> THEN << >>
    ELSE IF ks[1] = "x" THEN Known(Tail(ks))
    ELSE << ks[1] >> \o Known(Tail(ks))

\* C11: a dict with the key x, which no field of the record is named,
\* unmarshalled into the record: when x's value is well formed the call
\* succeeds with the cursor at the end of the buffer and the record is the
\* one the dict without x gives; when x's value has a grammar error the
\* call fails.
C11_UnknownKey ==
    \A ks \in XKeySeqs :
        /\ \A xv \in XGood \cup { encodeInteger(BindValue("x")) } :
               (Called(<< "Unmarshal" >>) /\ log[1].p = BindBufferX(ks, xv))
               => /\ log[1].err = "nil"
                  /\ log[1].pos = Len(log[1].p)
                  /\ log[1].val = Unmarshal(dtyp, Zero(dtyp), BindBuffer(Known(ks))).val
        /\ \A xv \in XBad :
               (Called(<< "Unmarshal" >>) /\ log[1].p = BindBufferX(ks, xv))
               => log[1].err \notin { "nil", PANIC }

\* C11 happens: a dict whose key x holds a list and whose key a is bound.
C11_Witness ==
    /\ Called(<< "Unmarshal" >>)
    /\ log[1].p = BindBufferX(<< "a", "x" >>, << "l", "i", "1", "e", "e" >>)
    /\ log[1].err = "nil"
    /\ log[1].val.v[1] = IntV("Int64", 1)

\* The Go value that the bytes vb of DictValues and ElemValues denote.
ValueOf(vb) ==
    CASE vb = << "i", "0", "e" >> -> IntV("Int64", 0)
      [] vb = << "i", "1", "e" >> -> IntV("Int64", 1)
      [] vb = << "1", ":", "a" >> -> StringV(<< "a" >>)
      [] vb = << "l", "e" >> -> ListV(TIface, << >>)
      [] vb = << "l", "i", "0", "e", "e" >> -> ListV(TIface, << IntV("Int64", 0) >>)
      [] vb = << "d", "1", ":", "a", "i", "0", "e", "e" >> ->
             DictV(TIface, << "a" >> :> IntV("Int64", 0))

\* The places of the key key in the pairs ps.
Places(ps, key) == { n \in 1..Len(ps) : ps[n].key = key }

\* the largest of a non-empty set of numbers
Last(S) == CHOOSE n \in S : \A m \in S : m <= n

\* C12: a dict in which a key comes more than once, decoded into the generic
\* value or a generic map: the call succeeds and the map holds under that
\* key the value of the key's last occurrence.
C12_LastWins ==
    \A ps \in PairSeqs :
        (/\ Len(log) >= 1
         /\ log[1].op \in { "Unmarshal", "Decode" }
         /\ log[1].p = DictBuffer(ps))
        => \A key \in DictKeys :
               Cardinality(Places(ps, key)) > 1
               => /\ log[1].err = "nil"
                  /\ log[1].val.k = "dict"
                  /\ key \in DOMAIN log[1].val.m
                  /\ log[1].val.m[key] = ValueOf(ps[Last(Places(ps, key))].val)

\* C12 happens: the key a three times, with three values.
C12_Witness ==
    /\ Called(<< "Unmarshal" >>)
    /\ dtyp = TIface
    /\ log[1].p = << "d", "1", ":", "a", "i", "0", "e", "1", ":", "a", "i", "1", "e",
                     "1", ":", "a", "1", ":", "a", "e" >>
    /\ log[1].val.m[<< "a" >>] = StringV(<< "a" >>)

\* C13: decoding into a generic map.  A dict whose keys arrive in any order
\* is decoded without error up to the end of the buffer, and the map holds
\* exactly the keys sent, each key that was sent once with its value; "de"
\* is decoded without error; a dict without its closing "e", one with a key
\* that is no byte string and one with a key without a value return an
\* error.
C13_DictGrammar ==
    (/\ Len(log) >= 1
     /\ log[1].op \in { "Unmarshal", "Decode" }
     /\ dtyp = TMap(TIface))
    => /\ \A ps \in PairSeqs :
              /\ log[1].p = DictBuffer(ps)
                     => /\ log[1].err = "nil"
                        /\ log[1].pos = Len(log[1].p)
                        /\ log[1].val.k = "dict"
                        /\ DOMAIN log[1].val.m = { ps[n].key : n \in 1..Len(ps) }
                        /\ \A n \in 1..Len(ps) :
                               Places(ps, ps[n].key) = { n }
                               => log[1].val.m[ps[n].key] = ValueOf(ps[n].val)
              /\ log[1].p = OpenDict(ps) => log[1].err \notin { "nil", PANIC }
       /\ log[1].p \in BadKeyDicts \cup NoValueDicts => log[1].err \notin { "nil", PANIC }

\* C13 happens: the key b before the key a.
C13_Witness ==
    /\ Called(<< "Unmarshal" >>)
    /\ dtyp = TMap(TIface)
    /\ log[1].p = << "d", "1", ":", "b", "i", "1", "e", "1", ":", "a", "1", ":", "a", "e" >>
    /\ log[1].err = "nil"
    /\ log[1].val.m[<< "b" >>] = IntV("Int64", 1)

\* The element type of the list that a destination of type t receives.
ElemType(t) == IF t = TIface THEN TIface ELSE t.elem

\* An element with the bytes vb can be stored in a slice of elemT.
Fits(vb, elemT) ==
    \/ elemT = TIface
    \/ elemT = TypeOf(ValueOf(vb))

\* C14: a list decoded into a fresh generic or slice destination that its
\* elements fit is decoded without error up to the end of the buffer, and
\* the destination holds the elements in the order of the input, none for
\* "le"; a list without its closing "e" returns an error.
C14_ListOrder ==
    \A es \in ElemSeqs :
        (/\ Len(log) >= 1
         /\ log[1].op \in { "Unmarshal", "Decode" }
         /\ dtyp \in { TIface, TSlice(TIface), TSlice(TInt64), TSlice(TString) })
        => /\ (log[1].p = ListBuffer(es) /\ \A n \in 1..Len(es) : Fits(es[n], ElemType(dtyp)))
                  => /\ log[1].err = "nil"
                     /\ log[1].pos = Len(log[1].p)
                     /\ log[1].val =
                            ListV(ElemType(dtyp), [n \in 1..Len(es) |-> ValueOf(es[n])])
           /\ log[1].p = OpenList(es) => log[1].err \notin { "nil", PANIC }

\* C14 happens: three different elements into the generic destination.
C14_Witness ==
    /\ Called(<< "Unmarshal" >>)
    /\ dtyp = TIface
    /\ log[1].p = << "l", "i", "1", "e", "1", ":", "a", "i", "0", "e", "e" >>
    /\ log[1].err = "nil"
    /\ Len(log[1].val.v) = 3

\* The number of digits that the bytes p start with.
DigitRun(p) ==
    CHOOSE c \in 0..Len(p) :
        /\ \A n \in 1..c : IsDigit(p[n])
        /\ c = Len(p) \/ ~IsDigit(p[c + 1])

\* The bytes p start with a byte string: digits, a colon and as many bytes
\* as the digits say.
IsString(p) ==
    LET c == DigitRun(p) IN
    /\ c >= 1
    /\ c < Len(p)
    /\ p[c + 1] = ":"
    /\ DecVal(SubSeq(p, 1, c)) <= Len(p) - (c + 1)

\* C15: Decode of a buffer that starts with a digit into a string, a byte
\* slice or the generic destination succeeds exactly when the digits are
\* followed by a colon and by at least as many bytes as the digits say; the
\* destination then holds exactly these bytes and the cursor is right
\* after them.
C15_ByteString ==
    (/\ Called(<< "Decode" >>)
     /\ dtyp \in { TString, TBytes, TIface }
     /\ log[1].p # << >>
     /\ IsDigit(log[1].p[1]))
    => LET p == log[1].p
           c == DigitRun(p)
           n == DecVal(SubSeq(p, 1, c))
       IN
       /\ log[1].err = "nil" <=> IsString(p)
       /\ log[1].err # PANIC
       /\ IsString(p)
              => /\ log[1].pos = c + 1 + n
                 /\ log[1].val = IF dtyp = TBytes THEN BytesV(SubSeq(p, c + 2, c + 1 + n))
                                  ELSE StringV(SubSeq(p, c + 2, c + 1 + n))

\* C15 happens: two bytes declared, two bytes and one more following.
C15_Witness ==
    /\ Called(<< "Decode" >>)
    /\ dtyp = TString
    /\ log[1].p = << "2", ":", "a", "1" >>
    /\ log[1].err = "nil"
    /\ log[1].val = StringV(<< "a", "1" >>)

\* The shape of a destination of type t.
Shape(t) ==
    LET d == derefType(t) IN
    CASE d.k = "String" -> "text"
      [] d = TBytes -> "bytes"
      [] d.k = "Slice" /\ d # TBytes -> "sequence"
      [] d.k = "Map" -> "map"
      [] d.k = "Struct" -> "record"
      [] d.k \in SignedKinds \cup UnsignedKinds -> "integer"
      [] d.k = "Bool" -> "boolean"
      [] d.k = "Interface" -> "generic"

\* A token that starts with the byte c does not go into a destination of
\* the shape shape.
Mismatch(c, shape) ==
    \/ c = "i" /\ shape \in { "text", "sequence", "map", "record" }
    \/ IsDigit(c) /\ shape \in { "integer", "boolean", "sequence", "map", "record" }
    \/ c = "l" /\ shape \notin { "sequence", "generic" }
    \/ c = "d" /\ shape \notin { "map", "record", "generic" }

\* the errors that say that the token does not go into the destination
MismatchErrors ==
    { "cannot decode integer", "cannot decode string", "cannot decode list",
      "2 cannot decode dictionary", "3 cannot decode dictionary" }

\* C16: a token decoded into a destination whose shape it does not go
\* into returns a type mismatch error.
C16_TypeMismatch ==
    (/\ Len(log) >= 1
     /\ log[1].op \in { "Unmarshal", "Decode" }
     /\ log[1].p \in ShapeTokens
     /\ Mismatch(log[1].p[1], Shape(dtyp)))
    => log[1].err \in MismatchErrors

\* The sequences that hold every member of K once.
Orders(K) ==
    { ks \in [1..Cardinality(K) -> K] : \A i, j \in 1..Cardinality(K) : i # j => ks[i] # ks[j] }

\* Each key of ks is less than the next in byte order.
StrictlyAscending(ks) == \A n \in 1..(Len(ks) - 1) : StrLess(ks[n], ks[n + 1])

\* The keys ks, each followed by the encoding of its value in m.
RECURSIVE Pairs(_, _)
Pairs(ks, m) ==
    IF ks = << >> THEN << >>
    ELSE encodeString(ks[1]) \o Marshal(m[ks[1]]).p \o Pairs(Tail(ks), m)

\* C17: Marshal of a generic map gives "d", the keys in strictly ascending
\* byte order, each once and followed by the encoding of its value, and
\* "e"; "de" for the empty map.
C17_SortedKeys ==
    (/\ Called(<< "Marshal" >>)
     /\ log[1].val.k = "dict"
     /\ log[1].val.t = TIface
     /\ \A key \in DOMAIN log[1].val.m : Marshal(log[1].val.m[key]).err = "nil")
    => /\ log[1].err = "nil"
       /\ \E ks \in Orders(DOMAIN log[1].val.m) :
              /\ StrictlyAscending(ks)
              /\ log[1].p = << "d" >> \o Pairs(ks, log[1].val.m) \o << "e" >>
       /\ DOMAIN log[1].val.m = { } => log[1].p = << "d", "e" >>

\* C17 happens: a map of the keys "b", "ab", "a" and "B".
C17_Witness ==
    /\ Called(<< "Marshal" >>)
    /\ log[1].val.k = "dict"
    /\ DOMAIN log[1].val.m = { << "b" >>, << "a", "b" >>, << "a" >>, << "B" >> }
    /\ log[1].err = "nil"

\* The serialized name of a field: its tag name when it has one, its
\* identifier otherwise.
SerName(f) == IF f.Tag # << >> THEN f.Tag ELSE f.Name

\* The fields of the record v that are emitted: the exported ones, but for
\* an omitempty field whose value is empty.
Emitted(v) ==
    { i \in 1..Len(v.t.fields) :
          /\ v.t.fields[i].PkgPath = ""
          /\ ~(v.t.fields[i].Opts = "omitempty" /\ Marshal(v.v[i]).p \in EmptyEncodings) }

\* The fields is of v, each as its serialized name and the encoding of its
\* value.
RECURSIVE Entries(_, _)
Entries(is, v) ==
    IF is = << >> THEN << >>
    ELSE encodeString(SerName(v.t.fields[is[1]])) \o Marshal(v.v[is[1]]).p \o Entries(Tail(is), v)

\* C18: Marshal of a record gives one entry for each emitted exported field,
\* keyed by its serialized name, the keys strictly ascending; an unexported
\* field gives none.
C18_RecordKeys ==
    (/\ Called(<< "Marshal" >>)
     /\ log[1].val.k = "struct"
     /\ \A i \in 1..Len(log[1].val.v) : Marshal(log[1].val.v[i]).err = "nil")
    => /\ log[1].err = "nil"
       /\ \E is \in Orders(Emitted(log[1].val)) :
              /\ \A n \in 1..(Len(is) - 1) :
                     StrLess(SerName(log[1].val.t.fields[is[n]]),
                             SerName(log[1].val.t.fields[is[n + 1]]))
              /\ log[1].p = << "d" >> \o Entries(is, log[1].val) \o << "e" >>

\* v has a MarshalBencoding method.
HasMethod(v) == v.k = "marsh"

\* The bytes and the error of the element v: those its method returns when
\* it has one, those of Marshal otherwise.
OwnBytes(v) == IF HasMethod(v) THEN v.v ELSE Marshal(v).p
OwnErr(v) == IF HasMethod(v) THEN v.e ELSE Marshal(v).err

\* The bytes of the elements vs, in order.
RECURSIVE Items(_)
Items(vs) == IF vs = << >> THEN << >> ELSE OwnBytes(vs[1]) \o Items(Tail(vs))

\* The keys ks, each followed by the bytes of its value in m.
RECURSIVE OwnPairs(_, _)
OwnPairs(ks, m) ==
    IF ks = << >> THEN << >>
    ELSE encodeString(ks[1]) \o OwnBytes(m[ks[1]]) \o OwnPairs(Tail(ks), m)

\* The error of the first element of vs that has one.
RECURSIVE FirstErr(_)
FirstErr(vs) ==
    IF vs = << >> THEN "nil"
    ELSE IF OwnErr(vs[1]) # "nil" THEN OwnErr(vs[1])
    ELSE FirstErr(Tail(vs))

\* C19: Marshal of a value with a MarshalBencoding method returns the bytes
\* and the error of the method, whatever the value is besides and whatever
\* the bytes are; in a list and in a map the method's bytes stand for the
\* value, and the method's error is the error of Marshal.
C19_Marshaller ==
    Called(<< "Marshal" >>) =>
       /\ HasMethod(log[1].val) =>
              log[1].err = log[1].val.e /\ log[1].p = log[1].val.v
       /\ (log[1].val.k = "list" /\ \E n \in 1..Len(log[1].val.v) : HasMethod(log[1].val.v[n])) =>
              /\ log[1].err = FirstErr(log[1].val.v)
              /\ log[1].err = "nil" =>
                     log[1].p = << "l" >> \o Items(log[1].val.v) \o << "e" >>
       /\ (log[1].val.k = "dict" /\ \E key \in DOMAIN log[1].val.m : HasMethod(log[1].val.m[key])) =>
              \E ks \in Orders(DOMAIN log[1].val.m) :
                 /\ StrictlyAscending(ks)
                 /\ log[1].err = FirstErr([n \in 1..Len(ks) |-> log[1].val.m[ks[n]]])
                 /\ log[1].err = "nil" =>
                        log[1].p = << "d" >> \o OwnPairs(ks, log[1].val.m) \o << "e" >>

\* C19 happens: in a list, a value that is a record besides and whose
\* method returns the bytes "e".
C19_Witness ==
    /\ Called(<< "Marshal" >>)
    /\ log[1].val.k = "list"
    /\ Len(log[1].val.v) = 3
    /\ HasMethod(log[1].val.v[2])
    /\ "u" \in DOMAIN log[1].val.v[2]
    /\ log[1].val.v[2].u.k = "struct"
    /\ log[1].val.v[2].v = << "e" >>
    /\ log[1].p = << "l", "i", "1", "e", "e", "1", ":", "a", "e" >>

\* The integer that the token s is the decimal of.
Denoted(s) ==
    IF s[2] = "-" THEN -DecVal(SubSeq(s, 3, Len(s) - 1))
    ELSE DecVal(SubSeq(s, 2, Len(s) - 1))

\* C20: Marshal of an integer gives a token "i<decimal>e" with no leading
\* zero and no "-0"; its decimal is the value for a signed integer and for
\* an unsigned one up to the largest int64, and the value less 2^64 for a
\* larger unsigned one.
C20_CanonicalInteger ==
    (Called(<< "Marshal" >>) /\ log[1].val.k \in { "int", "uint" })
    => /\ log[1].err = "nil"
       /\ IsToken(log[1].p, Len(log[1].p))
       /\ Denoted(log[1].p) =
              IF log[1].val.k = "uint" /\ log[1].val.n > MaxInt64
              THEN log[1].val.n - 2^IntBits
              ELSE log[1].val.n

\* C20 happens: the largest unsigned value is encoded as -1.
C20_Witness ==
    /\ Called(<< "Marshal" >>)
    /\ log[1].val.k = "uint"
    /\ log[1].val.n = 2^IntBits - 1
    /\ log[1].p = << "i", "-", "1", "e" >>

\* C21: Marshal of true is "i1e" and of false "i0e"; the token of an int64
\* decoded into a bool gives false for 0 and true for every other value.
C21_Boolean ==
    /\ (Called(<< "Marshal" >>) /\ log[1].val.k = "bool")
           => /\ log[1].err = "nil"
              /\ log[1].p = IF log[1].val.b THEN << "i", "1", "e" >> ELSE << "i", "0", "e" >>
    /\ \A n \in MinInt64..MaxInt64 :
           (/\ Len(log) >= 1
            /\ log[1].op \in { "Unmarshal", "Decode" }
            /\ log[1].p = Token(n)
            /\ dtyp = TBool)
           => (log[1].err = "nil" /\ log[1].val = BoolV(n # 0))

\* The values vs one after the other.
RECURSIVE Concat(_)
Concat(vs) == IF vs = << >> THEN << >> ELSE vs[1] \o Concat(Tail(vs))

\* The first calls of the caller are n calls of Decode with a pointer.
Decoded(n) == Len(log) >= n /\ \A i \in 1..n : log[i].op = "Decode"

\* C22: over a buffer of k values, the n-th Decode of a Decoder gives the
\* n-th value and ends where that value ends, for n up to k; every later
\* one gives EOF and leaves the destination and the cursor as they were.
C22_Stream ==
    \A k \in 0..MaxValues : \A vs \in [1..k -> StreamValues] :
       \A n \in 1..Len(log) :
          (Decoded(n) /\ log[1].p = Concat(vs))
          => IF n <= k
             THEN /\ log[n].err = "nil"
                  /\ log[n].val = ValueOf(vs[n])
                  /\ log[n].pos = Len(Concat(SubSeq(vs, 1, n)))
             ELSE /\ log[n].err = EOF
                  /\ log[n].val = IF n = 1 THEN Nil ELSE log[n - 1].val
                  /\ log[n].pos = Len(log[1].p)

\* C22 happens: a list and a string read one after the other, and a call
\* at the end of the buffer.
C22_Witness ==
    /\ Decoded(3)
    /\ log[1].p = << "l", "i", "0", "e", "e", "1", ":", "a" >>
    /\ log[1].val = ListV(TIface, << IntV("Int64", 0) >>)
    /\ log[2].val = StringV(<< "a" >>)
    /\ log[3].err = EOF

\* The scan as stated: from the descriptor j on, across omitempty
\* descriptors, to the descriptor named name; 0 when a descriptor without
\* omitempty and with another name, or the end of the table, comes first.
RECURSIVE StatedScan(_, _, _)
StatedScan(fs, j, name) ==
    IF j > Len(fs) THEN 0
    ELSE IF fs[j].name = name THEN j
    ELSE IF ~fs[j].omitempty THEN 0
    ELSE StatedScan(fs, j + 1, name)

\* The field values that the keys ks give under the stated scan, which
\* starts at the descriptor i.
RECURSIVE StatedBind(_, _, _, _)
StatedBind(fs, i, ks, fv) ==
    IF ks = << >> THEN fv
    ELSE LET j == StatedScan(fs, i, << ks[1] >>) IN
         IF j = 0 THEN StatedBind(fs, i, Tail(ks), fv)
         ELSE StatedBind(fs, j + 1, Tail(ks),
                         [fv EXCEPT ![fs[j].i] = IntV("Int64", BindValue(ks[1]))])

\* C25: a dict unmarshalled into a record binds each key by a scan that
\* starts after the last matched descriptor and goes on only across
\* omitempty descriptors, so the record holds what that scan binds.
C25_DescriptorScan ==
    \A ks \in KeySeqs :
        (Called(<< "Unmarshal" >>) /\ dtyp.k = "Struct" /\ log[1].p = BindBuffer(ks))
        => /\ log[1].err = "nil"
           /\ log[1].val.v = StatedBind(structFields(dtyp), 1, ks, Zero(dtyp).v)

\* The calls made on the Decoder that the caller keeps.
OnDecoder == { "Decode", "DecodeBadDst" }

\* Where the Decoder's cursor was before the n-th call: where the call on
\* it before left it, 0 when there was none since the Decoder was made.
Before(n) ==
    IF n > 1 /\ log[n - 1].op \in OnDecoder THEN log[n - 1].pos ELSE 0

\* C26: every call, whether it succeeds or fails, leaves the cursor no less
\* than it found it and no greater than the length of the buffer.
C26_Cursor ==
    \A n \in 1..Len(log) :
        /\ log[n].op \in OnDecoder \cup { "Unmarshal" } => log[n].pos <= Len(log[n].p)
        /\ log[n].op \in OnDecoder => log[n].pos >= Before(n)
        /\ log[n].op = "Unmarshal" => log[n].pos >= 0

\* C26 happens: a call fails two bytes into the buffer, and the next one
\* fails where that one stopped.
C26_Witness ==
    /\ Called(<< "Decode", "Decode" >>)
    /\ log[1].p = << "i", "1", ":" >>
    /\ log[1].err \notin { "nil", EOF }
    /\ log[1].pos = 2
    /\ log[2].err \notin { "nil", EOF }
    /\ log[2].pos = 2

\* The goroutine g waits for the mutex that it holds itself: it waits for
\* ever, as no other goroutine unlocks it.
BlockedForever(g) == gor[g].pc = "lock" /\ tw.mut = g

\* C23: NewWriterSingle does not block for ever, and returns without error a
\* Writer in single-file mode whose one file, named name, is open.
C23_NewWriterSingle ==
    /\ \A g \in DOMAIN gor : gor[g].ret = "NewWriterSingle" => ~BlockedForever(g)
    /\ \A j \in 1..Len(wlog) :
           wlog[j].op = "NewWriterSingle"
           => /\ wlog[j].err = "nil"
              /\ wlog[j].single
              /\ Len(wlog[j].files) = 1
              /\ wlog[j].files[1].path = wlog[j].path
              /\ wlog[j].file = 1

\* C24: once Close has returned nil, every later Write, Open and Close
\* returns errClosed and leaves the files, their length counters and the
\* piece table as they were.
C24_Closed ==
    \A i, j \in 1..Len(wlog) :
        (/\ i < j
         /\ wlog[i].op = "Close"
         /\ wlog[i].err = "nil"
         /\ wlog[j].op \in { "Write", "Open", "Close" })
        => /\ wlog[j].err = errClosed
           /\ wlog[j].files = wlog[j - 1].files
           /\ wlog[j].pieces = wlog[j - 1].pieces

\* The calls 1..j of the log are NewWriter, then calls of ops only, none of
\* which panicked.
Only(j, ops) ==
    /\ j <= Len(wlog)
    /\ wlog[1].op = "NewWriter"
    /\ \A i \in 2..j : wlog[i].op \in ops /\ wlog[i].err # PANIC

\* The bytes given to the Writes among the calls 1..j that had an open file.
RECURSIVE Written(_)
Written(j) ==
    IF j = 0 THEN 0
    ELSE Written(j - 1)
         + (IF wlog[j].op = "Write" /\ wlog[j].err = "nil" THEN wlog[j].len ELSE 0)

\* C27: while a file is written to, every sum in the piece table covers
\* plen bytes, and the bytes no sum covers yet are plen at most, however the
\* bytes came in Write calls.
C27_PieceBoundaries ==
    \A j \in 2..Len(wlog) :
        Only(j, { "Open", "Write" }) /\ { i \in 2..j : wlog[i].op = "Open" } = { 2 }
        => /\ \A k \in 1..Len(wlog[j].pieces) : wlog[j].pieces[k] = tw.plen
           /\ Written(j) - tw.plen * Len(wlog[j].pieces) \in 0..tw.plen

\* C28: a Write of p on a Writer with an open file returns len(p) and no
\* error, and adds len(p) to the length counter of the file.
C28_WriteCount ==
    \A j \in 2..Len(wlog) :
        (/\ wlog[j].op = "Write"
         /\ wlog[j - 1].file # 0
         /\ \A i \in 1..j : wlog[i].op # "Close")
        => /\ wlog[j].err = "nil"
           /\ wlog[j].n = wlog[j].len
           /\ wlog[j].files[wlog[j - 1].file].length
                  = wlog[j - 1].files[wlog[j - 1].file].length + wlog[j].len

\* C29: Metainfo after Open and Write calls, and after Metainfo calls,
\* leaves a piece table of one sum for each piece of the bytes written:
\* ceil(bytes / plen) sums.
C29_PieceCount ==
    \A j \in 2..Len(wlog) :
        (Only(j, { "Open", "Write", "Metainfo" }) /\ wlog[j].op = "Metainfo")
        => /\ Len(wlog[j].pieces) = (Written(j) + tw.plen - 1) \div tw.plen
           /\ wlog[j].info.Pieces = wlog[j].pieces

\* The goroutine g is between Lock and Unlock of t.mut.
InCritical(g) == tw.mut = g /\ gor[g].pc = "locked"

\* The goroutine g is reading t.single, t.files and the files' fields.
Reading(g) == gor[g].pc \in { "mode", "files" }

\* C30: no goroutine reads the file list or a file's fields while another
\* one is in its critical section.
C30_Serialized ==
    \A g, h \in DOMAIN gor : g # h => ~(Reading(g) /\ InCritical(h))

====
